---- MODULE Spec2Model ----
(***************************************************************************)
(* PigeonIdP: identity sessions, signed authentication tokens and signed   *)
(* directory records over a shared key-value store (index.js).             *)
(*                                                                         *)
(* JavaScript strings are TLA+ strings and are built with \o exactly as    *)
(* the template literals and JSON.stringify build them, so two different   *)
(* structured values may or may not serialise to the same text.            *)
(* A JavaScript object is the sequence of its <<key, value>> members in    *)
(* insertion order (the order JSON.stringify walks).  Keys are never       *)
(* integer-like, so no key is moved to the front by the engine.            *)
(*                                                                         *)
(* The signing primitive (unsea signMessage / verifyMessage) is ideal:     *)
(* a signature verifies under a public key exactly when it was made with   *)
(* the matching private key over the same text.                            *)
(***************************************************************************)
EXTENDS Integers, Sequences, FiniteSets, TLC

\* ------------------------------------------------------------------ bounds
MaxSeconds == 3     \* the clock runs from second 1 to this second
MaxTtl == 1         \* expiresIn is drawn from -MaxTtl .. MaxTtl
MaxRawPuts == 1     \* writes made to the store by other parties
MaxAuthRequests == 2   \* authentication requests stored for one hub

\* --------------------------------------------------------- program constants
MsPerSecond == 1000
DefaultExpiresIn == 3600        \* generateAuthToken(claims = {}, expiresIn = 3600)

\* ------------------------------------------------------------ JS values
Undefined == [t |-> "undef"]
Null == [t |-> "null"]
Str(s) == [t |-> "str", s |-> s]
Num(n) == [t |-> "num", n |-> n]
Obj(o) == [t |-> "obj", o |-> o]

\* JavaScript truthiness, as used by !x, x && y and x || y.
Truthy(v) ==
  CASE v.t = "undef" -> FALSE
    [] v.t = "null" -> FALSE
    [] v.t = "str" -> v.s # ""
    [] v.t = "num" -> v.n # 0
    [] OTHER -> TRUE

\* o.k : the value of member k, undefined when o has no such member.
Has(o, k) == \E i \in 1..Len(o) : o[i][1] = k
Get(o, k) ==
  IF Has(o, k) THEN o[CHOOSE i \in 1..Len(o) : o[i][1] = k][2] ELSE Undefined

\* o.k = v : an existing member keeps its position, a new one is appended.
Put(o, k, v) ==
  IF Has(o, k)
  THEN [i \in 1..Len(o) |-> IF o[i][1] = k THEN <<k, v>> ELSE o[i]]
  ELSE Append(o, <<k, v>>)

\* { ...a, ...b } : object spread, members of b written onto a in b's order.
RECURSIVE Spread(_, _)
Spread(a, b) ==
  IF b = <<>> THEN a ELSE Spread(Put(a, b[1][1], b[1][2]), Tail(b))

\* const { k, ...rest } = o : rest is o without member k, order kept.
Rest(o, k) == SelectSeq(o, LAMBDA m : m[1] # k)

\* JSON.stringify of a value: members in insertion order, no white space.
\* The strings of the model hold no quote, backslash or control character,
\* so no character is escaped.
RECURSIVE StringifyValue(_), StringifyMembers(_)
StringifyValue(v) ==
  CASE v.t = "str" -> "\"" \o v.s \o "\""
    [] v.t = "num" -> ToString(v.n)
    [] v.t = "null" -> "null"
    [] v.t = "obj" -> "{" \o StringifyMembers(v.o) \o "}"

StringifyMembers(o) ==
  IF o = <<>> THEN ""
  ELSE "\"" \o o[1][1] \o "\":" \o StringifyValue(o[1][2])
       \o (IF Len(o) > 1 THEN "," ELSE "")
       \o StringifyMembers(Tail(o))

\* -------------------------------------------------------- KeyCapability
\* The keypairs generateRandomPair can hand out, as portable strings.
Keypairs ==
  { [t |-> "keys", pub |-> "pubA", priv |-> "privA",
     epub |-> "epubA", epriv |-> "eprivA"],
    [t |-> "keys", pub |-> "pubB", priv |-> "privB",
     epub |-> "epubB", epriv |-> "eprivB"] }

\* The private key matching a public key; "" when no keypair has it.
PrivOf(pub) ==
  IF \E k \in Keypairs : k.pub = pub
  THEN (CHOOSE k \in Keypairs : k.pub = pub).priv
  ELSE ""

\* signMessage(message, priv): the signature, a string.
signMessage(message, priv) == "sig<" \o priv \o ">" \o message

\* verifyMessage(message, signature, pub): a value that is not a string
\* (a record stored without its signature) verifies under no key.
verifyMessage(message, signature, pub) ==
  /\ signature.t = "str"
  /\ pub.t = "str"
  /\ PrivOf(pub.s) # ""
  /\ signature.s = signMessage(message, PrivOf(pub.s))

\* ------------------------------------------------------------ the state
Sessions == {"s1", "s2"}

\* new PigeonIdP({namespace}) of each session instance.
NamespaceOf == [s \in Sessions |-> IF s = "s1" THEN "m" ELSE "n:m"]

Aliases == {"k", "k:n"}
Profiles ==
  { << <<"username", Str("alice")>> >>,
    << <<"username", Str("bob")>>, <<"email", Str("b@x")>> >> }
ClaimInputs ==
  { <<>>,
    << <<"username", Str("alice")>>, <<"role", Str("user")>> >>,
    << <<"namespace", Str("x")>>, <<"username", Str("alice")>> >>,
    << <<"exp", Num(9)>>, <<"iat", Num(0)>>, <<"iss", Str("pubB")>>,
       <<"namespace", Str("x")>> >> }
StrPool == {"bob", "pubB"}
Ttls == (0 - MaxTtl)..MaxTtl

VARIABLES
  sess,       \* session -> [namespace, mesh, webDHT, keys, initialized]
  store,      \* the directory store: key -> value, for the keys written
  generated,  \* the keypairs generateRandomPair has handed out
  now,        \* Date.now(), in milliseconds
  token,      \* the token in transit: [claims, signature]
  issued,     \* the last generateAuthToken call and the token it returned
  rawPuts,    \* the number of writes other parties have made to the store
  vault,      \* the key storage of saveKeys: alias -> [keys, password]
  published,  \* user key -> the registerIdentity call whose write it holds
  pending,    \* session -> its registerIdentity call suspended in sign
  server,     \* the HTTP server: its idp and saml globals, whether it listens
  verified,   \* the authentication requests the hub has verified: their keys
  last        \* the last call: its inputs, the collaborator calls, its result

vars ==
  <<sess, store, generated, now, token, issued, rawPuts, vault, published,
    pending, server, verified, last>>

NoToken == [claims |-> Undefined, signature |-> Undefined]
NotIssued == [s |-> "", claimsIn |-> <<>>, ttl |-> 0, iat |-> 0, token |-> NoToken]

\* Math.floor(Date.now() / 1000)
Seconds(ms) == ms \div MsPerSecond

\* server.js before start(): let idp = null; let saml = null;
NotStarted ==
  [idp |-> Null, saml |-> Null, listening |-> FALSE, exited |-> FALSE]

\* PigeonIdP.constructor
Constructor(ns) ==
  [namespace |-> ns, mesh |-> Null, webDHT |-> Null, keys |-> Null,
   initialized |-> FALSE]

Init ==
  /\ sess = [s \in Sessions |-> Constructor(NamespaceOf[s])]
  /\ store = <<>>
  /\ generated = {}
  /\ now = MsPerSecond
  /\ token = NoToken
  /\ issued = NotIssued
  /\ rawPuts = 0
  /\ vault = <<>>
  /\ published = <<>>
  /\ pending = [s \in Sessions |-> Null]
  /\ server = NotStarted
  /\ verified = {}
  /\ last = [op |-> "new"]

\* Mutant of DhtPut: a key that holds a value keeps it.
DhtPutKeepsFirst(st, key, value) ==
  [k \in DOMAIN st \cup {key} |-> IF k \in DOMAIN st THEN st[k] ELSE value]

\* Mutant of DhtPut: the store keeps the written key only.
DhtPutReplacing(st, key, value) == [k \in {key} |-> value]

\* webDHT.put(key, value) / webDHT.get(key) on the shared store.
DhtPut(st, key, value) ==
  [k \in DOMAIN st \cup {key} |-> IF k = key THEN value ELSE st[k]]
DhtGet(st, key) == IF key \in DOMAIN st THEN st[key] ELSE Undefined

\* The clock advances by half a second.
Tick ==
  /\ now + (MsPerSecond \div 2) <= MaxSeconds * MsPerSecond
  /\ now' = now + (MsPerSecond \div 2)
  /\ last' = [op |-> "tick"]
  /\ UNCHANGED <<sess, store, generated, token, issued, rawPuts, vault, published,
                 pending, server, verified>>

\* PigeonIdP.init
InitSession(s) ==
  /\ sess' = IF sess[s].initialized THEN sess
             ELSE [sess EXCEPT ![s].mesh = Str("mesh"),
                               ![s].webDHT = Str("webDHT"),
                               ![s].initialized = TRUE]
  /\ last' = [op |-> "init", s |-> s]
  /\ UNCHANGED <<store, generated, now, token, issued, rawPuts, vault, published,
                 pending, server, verified>>

\* The storage keys of createIdentity and of registerIdentity/lookupIdentity.
IdentityKey(alias, ns) == "identity:" \o alias \o ":" \o ns
UserKey(pub, ns) == "user:" \o pub \o ":" \o ns

\* A store key that is written no longer holds an earlier registration.
Unpublish(pubd, key) == [k \in DOMAIN pubd \ {key} |-> pubd[k]]

\* unsea saveKeys / loadKeys / clearKeys: the key storage, by alias.  The
\* storage medium exists in browsers only: persists tells whether this
\* environment has it.  loadKeys answers undefined when nothing is stored
\* under the alias and password.
saveKeys(v, alias, keys, password, persists) ==
  IF persists
  THEN [a \in DOMAIN v \cup {alias} |->
          IF a = alias THEN [keys |-> keys, password |-> password] ELSE v[a]]
  ELSE v
loadKeys(v, alias, password) ==
  IF alias \in DOMAIN v /\ v[alias].password = password
  THEN v[alias].keys
  ELSE Undefined
clearKeys(v, alias) == [a \in DOMAIN v \ {alias} |-> v[a]]

Passwords == {Null, Str("pw")}
LoadPasswords == {Str("pw"), Str("bad")}

\* Mutant of CreateIdentityAllowed: the initialized flag is not tested.
CreateIdentityAlwaysAllowed(session) == TRUE

\* The test createIdentity makes before anything else.
CreateIdentityAllowed(session) == session.initialized

\* Mutant of PublicKeyData: the announcement carries the signing key only.
PublicKeyDataNoEpub(k, alias, ns, created) ==
  << <<"pub", Str(k.pub)>>, <<"alias", Str(alias)>>,
     <<"namespace", Str(ns)>>, <<"created", Num(created)>> >>

\* The public-key announcement createIdentity stores for discovery.
PublicKeyData(k, alias, ns, created) ==
  << <<"pub", Str(k.pub)>>, <<"epub", Str(k.epub)>>, <<"alias", Str(alias)>>,
     <<"namespace", Str(ns)>>, <<"created", Num(created)>> >>

\* PigeonIdP.createIdentity(alias, password)
CreateIdentity(s, alias, password, persists) ==
  IF ~CreateIdentityAllowed(sess[s])
  THEN /\ last' = [op |-> "createIdentity", s |-> s, alias |-> alias,
                   password |-> password, outcome |-> "throw",
                   error |-> "IdP must be initialized before creating identity"]
       /\ UNCHANGED <<sess, store, generated, now, token, issued, rawPuts,
                      vault, published, pending, server, verified>>
  ELSE \E k \in Keypairs \ generated :
         LET key == IdentityKey(alias, sess[s].namespace)
             publicKeyData == PublicKeyData(k, alias, sess[s].namespace, now)
         IN /\ generated' = generated \cup {k}
            /\ sess' = [sess EXCEPT ![s].keys = k]
            /\ vault' = IF Truthy(password)
                        THEN saveKeys(vault, alias, k, password, persists)
                        ELSE vault
            /\ store' = DhtPut(store, key, Obj(publicKeyData))
            /\ published' = Unpublish(published, key)
            /\ last' = [op |-> "createIdentity", s |-> s, alias |-> alias,
                        password |-> password, outcome |-> "return",
                        key |-> key, before |-> DhtGet(store, key),
                        result |-> k]
            /\ UNCHANGED <<now, token, issued, rawPuts, pending, server,
                 verified>>

\* Mutant of LoadIdentity: what loadKeys answers is returned untested.
LoadIdentityUntested(s, alias, password) ==
  IF ~sess[s].initialized
  THEN /\ last' = [op |-> "loadIdentity", s |-> s, alias |-> alias,
                   password |-> password, outcome |-> "throw",
                   error |-> "IdP must be initialized before loading identity"]
       /\ UNCHANGED <<sess, store, generated, now, token, issued, rawPuts,
                      vault, published, pending, server, verified>>
  ELSE LET keys == loadKeys(vault, alias, password)
       IN /\ sess' = [sess EXCEPT ![s].keys = keys]
          /\ last' = [op |-> "loadIdentity", s |-> s, alias |-> alias,
                      password |-> password, outcome |-> "return",
                      result |-> keys]
          /\ UNCHANGED <<store, generated, now, token, issued, rawPuts,
                         vault, published, pending, server, verified>>

\* PigeonIdP.loadIdentity(alias, password): this.keys is assigned whatever
\* loadKeys answers, before it is tested.
LoadIdentity(s, alias, password) ==
  IF ~sess[s].initialized
  THEN /\ last' = [op |-> "loadIdentity", s |-> s, alias |-> alias,
                   password |-> password, outcome |-> "throw",
                   error |-> "IdP must be initialized before loading identity"]
       /\ UNCHANGED <<sess, store, generated, now, token, issued, rawPuts,
                      vault, published, pending, server, verified>>
  ELSE LET keys == loadKeys(vault, alias, password)
       IN /\ sess' = [sess EXCEPT ![s].keys = keys]
          /\ last' =
               IF ~Truthy(keys)
               THEN [op |-> "loadIdentity", s |-> s, alias |-> alias,
                     password |-> password, outcome |-> "throw",
                     error |-> "Identity with alias '" \o alias \o "' not found"]
               ELSE [op |-> "loadIdentity", s |-> s, alias |-> alias,
                     password |-> password, outcome |-> "return",
                     result |-> keys]
          /\ UNCHANGED <<store, generated, now, token, issued, rawPuts,
                         vault, published, pending, server, verified>>

\* PigeonIdP.clearIdentity(alias)
ClearIdentity(s, alias) ==
  /\ vault' = clearKeys(vault, alias)
  /\ sess' = IF Truthy(sess[s].keys) THEN [sess EXCEPT ![s].keys = Null]
             ELSE sess
  /\ last' = [op |-> "clearIdentity", s |-> s, alias |-> alias,
              discarded |-> Truthy(sess[s].keys)]
  /\ UNCHANGED <<store, generated, now, token, issued, rawPuts, published, pending,
                 server, verified>>

\* PigeonIdP.getPublicKeys
getPublicKeys(session) ==
  IF ~Truthy(session.keys) THEN Null
  ELSE Obj(<< <<"pub", Str(session.keys.pub)>>,
              <<"epub", Str(session.keys.epub)>> >>)

GetPublicKeys(s) ==
  /\ last' = [op |-> "getPublicKeys", s |-> s,
              result |-> getPublicKeys(sess[s])]
  /\ UNCHANGED <<sess, store, generated, now, token, issued, rawPuts,
                 vault, published, pending, server, verified>>

\* PigeonIdP.disconnect
Disconnect(s) ==
  /\ sess' = IF sess[s].mesh # Null
             THEN [sess EXCEPT ![s].mesh = Null, ![s].webDHT = Null,
                               ![s].initialized = FALSE]
             ELSE sess
  /\ last' = [op |-> "disconnect", s |-> s]
  /\ UNCHANGED <<store, generated, now, token, issued, rawPuts, vault, published,
                 pending, server, verified>>

SessionNext ==
  \/ \E s \in Sessions : InitSession(s)
  \/ \E s \in Sessions, alias \in Aliases, password \in Passwords,
        persists \in BOOLEAN : CreateIdentity(s, alias, password, persists)
  \/ \E s \in Sessions : Disconnect(s)

\* ------------------------------------------------- operations on the keypair
NoIdentity == "No identity loaded. Create or load an identity first"

\* Mutant of SignResult: this.keys is not tested before this.keys.priv.
SignResultUnguarded(keys, message) ==
  IF ~Truthy(keys)
  THEN [outcome |-> "throw", error |-> "TypeError"]
  ELSE [outcome |-> "return", result |-> signMessage(message, keys.priv)]

\* The body of sign(message) on the keypair the session holds.
SignResult(keys, message) ==
  IF ~Truthy(keys)
  THEN [outcome |-> "throw", error |-> NoIdentity]
  ELSE [outcome |-> "return", result |-> signMessage(message, keys.priv)]

Messages == {"hi", "ho"}

\* PigeonIdP.sign(message)
Sign(s, message) ==
  /\ last' = [op |-> "sign", s |-> s, message |-> message,
              res |-> SignResult(sess[s].keys, message)]
  /\ UNCHANGED <<sess, store, generated, now, token, issued, rawPuts,
                 vault, published, pending, server, verified>>

\* Mutant of VerifyResult: the message is not compared, only the key.
VerifyResultKeyOnly(message, signature, publicKey) ==
  \E m \in Messages : verifyMessage(m, signature, publicKey)

\* The body of verify(message, signature, publicKey): the three arguments
\* are handed to verifyMessage as they are; this.keys is not read.
VerifyResult(message, signature, publicKey) ==
  verifyMessage(message, signature, publicKey)

\* PigeonIdP.verify(message, signature, publicKey) on session s, given the
\* signature the sign call before it returned; the signature can be
\* verified again, by any session.
Verify(s, message, publicKey) ==
  /\ \/ last.op = "sign" /\ last.res.outcome = "return"
     \/ last.op = "verify"
  /\ LET signature == IF last.op = "sign" THEN last.res.result
                      ELSE last.signature
     IN last' = [op |-> "verify", s |-> s, message |-> message,
                 signature |-> signature, publicKey |-> publicKey,
                 signer |-> IF last.op = "sign" THEN last.s ELSE last.signer,
                 signed |-> IF last.op = "sign" THEN last.message
                            ELSE last.signed,
                 result |-> VerifyResult(message, Str(signature), publicKey)]
  /\ UNCHANGED <<sess, store, generated, now, token, issued, rawPuts,
                 vault, published, pending, server, verified>>

\* unsea encryptMessageWithMeta / decryptMessageWithMeta, ideal: an envelope
\* opens with the private encryption key matching the key it was sealed for.
EprivOf(epub) ==
  IF \E k \in Keypairs : k.epub = epub
  THEN (CHOOSE k \in Keypairs : k.epub = epub).epriv
  ELSE ""
encryptMessageWithMeta(message, targetKeys) ==
  [t |-> "enc", epub |-> targetKeys.epub, message |-> message]
decryptMessageWithMeta(encryptedMessage, epriv) ==
  IF EprivOf(encryptedMessage.epub) = epriv
  THEN [outcome |-> "return", result |-> encryptedMessage.message]
  ELSE [outcome |-> "throw", error |-> "decryption failed"]

\* PigeonIdP.encrypt(message, recipientKeys)
Encrypt(s, message, recipientKeys) ==
  /\ last' =
       IF ~Truthy(sess[s].keys)
       THEN [op |-> "encrypt", s |-> s,
             res |-> [outcome |-> "throw", error |-> NoIdentity]]
       ELSE LET targetKeys == IF Truthy(recipientKeys) THEN recipientKeys
                              ELSE sess[s].keys
            IN [op |-> "encrypt", s |-> s,
                res |-> [outcome |-> "return",
                         result |-> encryptMessageWithMeta(message, targetKeys)]]
  /\ UNCHANGED <<sess, store, generated, now, token, issued, rawPuts,
                 vault, published, pending, server, verified>>

\* PigeonIdP.decrypt(encryptedMessage)
Decrypt(s, encryptedMessage) ==
  /\ last' =
       IF ~Truthy(sess[s].keys)
       THEN [op |-> "decrypt", s |-> s,
             res |-> [outcome |-> "throw", error |-> NoIdentity]]
       ELSE [op |-> "decrypt", s |-> s,
             res |-> decryptMessageWithMeta(encryptedMessage,
                                            sess[s].keys.epriv)]
  /\ UNCHANGED <<sess, store, generated, now, token, issued, rawPuts,
                 vault, published, pending, server, verified>>

\* unsea exportToJWK / importFromJWK on a private key.
exportToJWK(key) == [t |-> "jwk", key |-> key]
importFromJWK(jwk) == jwk.key

\* The object exportKeys returns for a keypair.
ExportedKeys(keys) ==
  [priv |-> exportToJWK(keys.priv), pub |-> keys.pub,
   epriv |-> exportToJWK(keys.epriv), epub |-> keys.epub]

\* PigeonIdP.exportKeys
ExportKeys(s) ==
  /\ last' =
       IF ~Truthy(sess[s].keys)
       THEN [op |-> "exportKeys", s |-> s,
             res |-> [outcome |-> "throw", error |-> NoIdentity]]
       ELSE [op |-> "exportKeys", s |-> s,
             res |-> [outcome |-> "return",
                      result |-> ExportedKeys(sess[s].keys)]]
  /\ UNCHANGED <<sess, store, generated, now, token, issued, rawPuts,
                 vault, published, pending, server, verified>>

\* PigeonIdP.importKeys(jwkKeys): a private key given as a string is taken
\* as it is, one given as a JWK is imported.
ImportedKeys(jwkKeys) ==
  [t |-> "keys",
   priv |-> IF jwkKeys.priv.t = "str" THEN jwkKeys.priv.s
            ELSE importFromJWK(jwkKeys.priv),
   pub |-> jwkKeys.pub,
   epriv |-> IF jwkKeys.epriv.t = "str" THEN jwkKeys.epriv.s
             ELSE importFromJWK(jwkKeys.epriv),
   epub |-> jwkKeys.epub]

\* The keys objects importKeys is given: an export, or a keypair whose
\* private keys are strings already.
StringKeys(keys) ==
  [priv |-> Str(keys.priv), pub |-> keys.pub,
   epriv |-> Str(keys.epriv), epub |-> keys.epub]

ImportKeys(s, jwkKeys) ==
  /\ sess' = [sess EXCEPT ![s].keys = ImportedKeys(jwkKeys)]
  /\ last' = [op |-> "importKeys", s |-> s]
  /\ UNCHANGED <<store, generated, now, token, issued, rawPuts, vault,
                 published, pending, server, verified>>

\* ------------------------------------------------------------ TokenService

\* Mutant of AuthTokenClaims: the caller's claims are spread last.
AuthTokenClaimsCallerLast(claims, ns, pub, iat, exp) ==
  Spread(<< <<"namespace", Str(ns)>>, <<"iss", Str(pub)>>,
            <<"iat", Num(iat)>>, <<"exp", Num(exp)>> >>,
         claims)

\* The claims object literal of generateAuthToken: the caller's claims
\* spread first, then namespace, iss, iat and exp written onto them.
AuthTokenClaims(claims, ns, pub, iat, exp) ==
  Spread(claims,
         << <<"namespace", Str(ns)>>, <<"iss", Str(pub)>>,
            <<"iat", Num(iat)>>, <<"exp", Num(exp)>> >>)

\* PigeonIdP.generateAuthToken(claims, expiresIn).  Date.now() is read twice,
\* for iat and for exp; the clock may advance by d between the two reads.
GenerateAuthToken(s, claims, expiresIn, d) ==
  IF ~Truthy(sess[s].keys)
  THEN /\ d = 0
       /\ last' = [op |-> "generateAuthToken", s |-> s, outcome |-> "throw",
                   error |-> NoIdentity]
       /\ UNCHANGED <<sess, store, generated, now, token, issued, rawPuts, vault, published,
                 pending, server, verified>>
  ELSE LET iat == Seconds(now)
           exp == Seconds(now + d) + expiresIn
           tokenClaims ==
             AuthTokenClaims(claims, sess[s].namespace, sess[s].keys.pub,
                             iat, exp)
           tokenString == StringifyValue(Obj(tokenClaims))
           signature == signMessage(tokenString, sess[s].keys.priv)
           tok == [claims |-> Obj(tokenClaims), signature |-> Str(signature)]
       IN /\ now + d <= MaxSeconds * MsPerSecond
          /\ now' = now + d
          /\ token' = tok
          /\ issued' = [s |-> s, claimsIn |-> claims, ttl |-> expiresIn,
                        iat |-> iat, token |-> tok]
          /\ last' = [op |-> "generateAuthToken", s |-> s,
                      outcome |-> "return", result |-> tok]
          /\ UNCHANGED <<sess, store, generated, rawPuts, vault, published, pending,
                 server, verified>>

\* Mutant of VerifyAuthTokenResult: the signature is not verified.
VerifyAuthTokenResultNoSignature(tok, nowMs) ==
  IF ~Truthy(tok.claims) \/ ~Truthy(tok.signature)
  THEN [valid |-> FALSE, error |-> "Invalid token format", calls |-> <<>>]
  ELSE IF Truthy(Get(tok.claims.o, "exp"))
            /\ Get(tok.claims.o, "exp").n < Seconds(nowMs)
       THEN [valid |-> FALSE, error |-> "Token expired",
             calls |-> <<"Date.now">>]
       ELSE [valid |-> TRUE, claims |-> tok.claims, calls |-> <<"Date.now">>]

\* The body of verifyAuthToken on a token at clock value nowMs: the result,
\* and the collaborator calls made on the way (Date.now, verifyMessage).
\* exp is a number in every token of the model.
VerifyAuthTokenResult(tok, nowMs) ==
  IF ~Truthy(tok.claims) \/ ~Truthy(tok.signature)
  THEN [valid |-> FALSE, error |-> "Invalid token format", calls |-> <<>>]
  ELSE LET nowS == Seconds(nowMs)
           exp == Get(tok.claims.o, "exp")
       IN IF Truthy(exp) /\ exp.n < nowS
          THEN [valid |-> FALSE, error |-> "Token expired",
                calls |-> <<"Date.now">>]
          ELSE LET tokenString == StringifyValue(tok.claims)
                   valid == verifyMessage(tokenString, tok.signature,
                                          Get(tok.claims.o, "iss"))
               IN IF ~valid
                  THEN [valid |-> FALSE, error |-> "Invalid signature",
                        calls |-> <<"Date.now", "verifyMessage">>]
                  ELSE [valid |-> TRUE, claims |-> tok.claims,
                        calls |-> <<"Date.now", "verifyMessage">>]

\* Mutant of VerifyAuthToken: a token found expired loses its signature.
VerifyAuthTokenConsuming(s) ==
  /\ last' = [op |-> "verifyAuthToken", s |-> s, token |-> token,
              now |-> now, result |-> VerifyAuthTokenResult(token, now)]
  /\ token' = IF VerifyAuthTokenResult(token, now).valid THEN token
              ELSE [token EXCEPT !.signature = Undefined]
  /\ UNCHANGED <<sess, store, generated, now, issued, rawPuts, vault,
                 published, pending, server, verified>>

\* Mutant of VerifyAuthToken: a session without a keypair verifies nothing.
VerifyAuthTokenNeedsKeys(s) ==
  /\ last' = [op |-> "verifyAuthToken", s |-> s, token |-> token,
              now |-> now,
              result |-> IF Truthy(sess[s].keys)
                         THEN VerifyAuthTokenResult(token, now)
                         ELSE [valid |-> FALSE, error |-> NoIdentity,
                               calls |-> <<>>]]
  /\ UNCHANGED <<sess, store, generated, now, token, issued, rawPuts, vault,
                 published, pending, server, verified>>

\* PigeonIdP.verifyAuthToken(token), on any session.
VerifyAuthToken(s) ==
  /\ last' = [op |-> "verifyAuthToken", s |-> s, token |-> token,
              now |-> now, result |-> VerifyAuthTokenResult(token, now)]
  /\ UNCHANGED <<sess, store, generated, now, token, issued, rawPuts, vault, published,
                 pending, server, verified>>

\* In transit, a party changes the value of one claim of the issued token
\* to another value of the same kind; the signature stays as issued.
TamperValues(v) ==
  IF v.t = "str" THEN {Str(x) : x \in StrPool} \ {v}
  ELSE {Num(n) : n \in 0..(MaxSeconds + MaxTtl)} \ {v}

TamperClaim ==
  /\ token = issued.token
  /\ Truthy(token.claims)
  /\ \E i \in 1..Len(token.claims.o) :
       \E v \in TamperValues(token.claims.o[i][2]) :
         token' = [token EXCEPT !.claims.o[i] = <<token.claims.o[i][1], v>>]
  /\ last' = [op |-> "tamper"]
  /\ UNCHANGED <<sess, store, generated, now, issued, rawPuts, vault, published,
                 pending, server, verified>>

\* In transit, the members of the claims object are reordered (the first
\* member moves to the end); keys, values and signature stay as issued.
Rotate(o) == IF o = <<>> THEN o ELSE Append(Tail(o), Head(o))

ReorderClaims ==
  /\ token = issued.token
  /\ Truthy(token.claims)
  /\ token' = [token EXCEPT !.claims.o = Rotate(token.claims.o)]
  /\ last' = [op |-> "reorder"]
  /\ UNCHANGED <<sess, store, generated, now, issued, rawPuts, vault, published,
                 pending, server, verified>>

\* In transit, the token loses its claims or its signature.
StripField ==
  /\ token = issued.token
  /\ Truthy(token.claims)
  /\ \/ token' = [token EXCEPT !.claims = Undefined]
     \/ token' = [token EXCEPT !.signature = Undefined]
  /\ last' = [op |-> "strip"]
  /\ UNCHANGED <<sess, store, generated, now, issued, rawPuts, vault, published,
                 pending, server, verified>>

TokenNext ==
  \/ \E s \in Sessions, c \in ClaimInputs, ttl \in Ttls,
        d \in {0, MsPerSecond \div 2} : GenerateAuthToken(s, c, ttl, d)
  \/ \E s \in Sessions : VerifyAuthToken(s)
  \/ TamperClaim
  \/ ReorderClaims
  \/ StripField

\* The state after s1.init() and s1.createIdentity("k") at the first clock
\* value; s2 is constructed only and holds no keypair.  SessionSpec reaches
\* this state, and DirectoryInit below, from Init.
KeyA == CHOOSE k \in Keypairs : k.pub = "pubA"
KeyB == CHOOSE k \in Keypairs : k.pub = "pubB"
Ready(s, k) ==
  [Constructor(NamespaceOf[s]) EXCEPT !.mesh = Str("mesh"),
                                      !.webDHT = Str("webDHT"),
                                      !.initialized = TRUE, !.keys = k]

TokenInit ==
  /\ sess = [s \in Sessions |->
              IF s = "s1" THEN Ready(s, KeyA) ELSE Constructor(NamespaceOf[s])]
  /\ store = DhtPut(<<>>, IdentityKey("k", NamespaceOf["s1"]),
                    Obj(PublicKeyData(KeyA, "k", NamespaceOf["s1"], MsPerSecond)))
  /\ generated = {KeyA}
  /\ now = MsPerSecond
  /\ token = NoToken
  /\ issued = NotIssued
  /\ rawPuts = 0
  /\ vault = <<>>
  /\ published = <<>>
  /\ pending = [s \in Sessions |-> Null]
  /\ server = NotStarted
  /\ verified = {}
  /\ last = [op |-> "createIdentity", s |-> "s1", outcome |-> "return",
             key |-> IdentityKey("k", NamespaceOf["s1"]), before |-> Undefined,
             result |-> KeyA]

TokenSpec == TokenInit /\ [][Tick \/ TokenNext]_vars

SessionSpec == Init /\ [][SessionNext]_vars

\* -------------------------------------------------------- DirectoryService
\* The record registerIdentity signs: pub, epub, profile, namespace and
\* registered, in this order.
IdentityData(k, profile, ns, registered) ==
  << <<"pub", Str(k.pub)>>, <<"epub", Str(k.epub)>>, <<"profile", Obj(profile)>>,
     <<"namespace", Str(ns)>>, <<"registered", Num(registered)>> >>

\* Mutant of Signed: the namespace member is left out of the signed text.
SignedWithoutNamespace(identityData, priv) ==
  Put(identityData, "signature",
      Str(signMessage(StringifyValue(Obj(Rest(identityData, "namespace"))),
                      priv)))

\* identityData.signature = sign(JSON.stringify(identityData)) with priv.
Signed(identityData, priv) ==
  Put(identityData, "signature",
      Str(signMessage(StringifyValue(Obj(identityData)), priv)))

\* PigeonIdP.registerIdentity(profile).  After disconnect the session still
\* holds its keys while webDHT is null: the put then raises a TypeError.
RegisterIdentity(s, profile) ==
  IF ~Truthy(sess[s].keys)
  THEN /\ last' = [op |-> "registerIdentity", s |-> s, outcome |-> "throw",
                   error |-> NoIdentity]
       /\ UNCHANGED <<sess, store, generated, now, token, issued, rawPuts, vault, published,
                 pending, server, verified>>
  ELSE LET identityData ==
             Signed(IdentityData(sess[s].keys, profile, sess[s].namespace, now),
                    sess[s].keys.priv)
           key == UserKey(sess[s].keys.pub, sess[s].namespace)
       IN IF sess[s].webDHT = Null
          THEN /\ last' = [op |-> "registerIdentity", s |-> s,
                           outcome |-> "throw", error |-> "TypeError"]
               /\ UNCHANGED <<sess, store, generated, now, token, issued,
                              rawPuts, vault, published, pending, server,
                              verified>>
          ELSE /\ store' = DhtPut(store, key, Obj(identityData))
               /\ published' =
                    [k \in DOMAIN published \cup {key} |->
                       IF k = key
                       THEN [s |-> s, profile |-> profile,
                             keys |-> sess[s].keys,
                             namespace |-> sess[s].namespace]
                       ELSE published[k]]
               /\ last' = [op |-> "registerIdentity", s |-> s,
                           outcome |-> "return", key |-> key,
                           before |-> DhtGet(store, key),
                           record |-> identityData]
               /\ UNCHANGED <<sess, generated, now, token, issued, rawPuts,
                              vault, pending, server, verified>>

\* PigeonIdP.authenticateWithHub(hubNamespace, credentials): the signed
\* request is stored for the hub, then a token is generated with the default
\* expiresIn and returned.
AuthRequest(pub, hubNamespace, timestamp, credentials) ==
  << <<"publicKey", Str(pub)>>, <<"namespace", Str(hubNamespace)>>,
     <<"timestamp", Num(timestamp)>>, <<"credentials", Obj(credentials)>> >>
RequestKey(hubNamespace, pub, timestamp) ==
  "auth:" \o hubNamespace \o ":" \o pub \o ":" \o ToString(timestamp)

Hubs == {"hub"}
Credentials ==
  { <<>>, << <<"username", Str("alice")>> >>,
    << <<"hub", Str("other")>>, <<"username", Str("alice")>> >> }

AuthenticateWithHub(s, hubNamespace, credentials) ==
  IF ~Truthy(sess[s].keys)
  THEN /\ last' = [op |-> "authenticateWithHub", s |-> s, outcome |-> "throw",
                   error |-> NoIdentity]
       /\ UNCHANGED <<sess, store, generated, now, token, issued, rawPuts,
                      vault, published, pending, server, verified>>
  ELSE LET keys == sess[s].keys
           authRequest ==
             Signed(AuthRequest(keys.pub, hubNamespace, now, credentials),
                    keys.priv)
           requestKey == RequestKey(hubNamespace, keys.pub, now)
           tokenClaims ==
             AuthTokenClaims(Spread(<< <<"hub", Str(hubNamespace)>> >>,
                                    credentials),
                             sess[s].namespace, keys.pub, Seconds(now),
                             Seconds(now) + DefaultExpiresIn)
           tok == [claims |-> Obj(tokenClaims),
                   signature |->
                     Str(signMessage(StringifyValue(Obj(tokenClaims)),
                                     keys.priv))]
       IN IF sess[s].webDHT = Null
          THEN /\ last' = [op |-> "authenticateWithHub", s |-> s,
                           outcome |-> "throw", error |-> "TypeError"]
               /\ UNCHANGED <<sess, store, generated, now, token, issued,
                              rawPuts, vault, published, pending, server,
                              verified>>
          ELSE /\ store' = DhtPut(store, requestKey, Obj(authRequest))
               /\ published' = Unpublish(published, requestKey)
               /\ last' = [op |-> "authenticateWithHub", s |-> s,
                           outcome |-> "return", success |-> TRUE,
                           token |-> tok, requestKey |-> requestKey]
               /\ UNCHANGED <<sess, generated, now, token, issued, rawPuts,
                              vault, pending, server, verified>>

\* Mutant of LookupIdentityResult: the record is returned unverified.
LookupIdentityResultUnverified(data, publicKey) ==
  IF ~Truthy(data)
  THEN [outcome |-> "null"]
  ELSE [outcome |-> "return", result |-> Rest(data.o, "signature")]

\* Mutant of LookupIdentityResult: the signature is verified against the
\* pub member of the record instead of the looked-up key.
LookupIdentityResultEmbeddedPub(data, publicKey) ==
  IF ~Truthy(data)
  THEN [outcome |-> "null"]
  ELSE IF ~verifyMessage(StringifyValue(Obj(Rest(data.o, "signature"))),
                         Get(data.o, "signature"), Get(data.o, "pub"))
       THEN [outcome |-> "throw",
             error |-> "Identity data signature verification failed"]
       ELSE [outcome |-> "return", result |-> Rest(data.o, "signature")]

\* Mutant of LookupIdentityResult: a miss raises an error.
LookupIdentityResultMissThrows(data, publicKey) ==
  IF ~Truthy(data)
  THEN [outcome |-> "throw", error |-> "Identity not found"]
  ELSE IF ~verifyMessage(StringifyValue(Obj(Rest(data.o, "signature"))),
                         Get(data.o, "signature"), Str(publicKey))
       THEN [outcome |-> "throw",
             error |-> "Identity data signature verification failed"]
       ELSE [outcome |-> "return", result |-> Rest(data.o, "signature")]

\* The body of lookupIdentity once the value at the key has been read:
\* absent -> null; else the signature is split off and the rest verified
\* against the looked-up public key.
LookupIdentityResult(data, publicKey) ==
  IF ~Truthy(data)
  THEN [outcome |-> "null"]
  ELSE LET signature == Get(data.o, "signature")
           identityData == Rest(data.o, "signature")
           dataString == StringifyValue(Obj(identityData))
           valid == verifyMessage(dataString, signature, Str(publicKey))
       IN IF ~valid
          THEN [outcome |-> "throw",
                error |-> "Identity data signature verification failed"]
          ELSE [outcome |-> "return", result |-> identityData]

\* PigeonIdP.lookupIdentity(publicKey)
LookupIdentity(s, publicKey) ==
  /\ last' =
       IF ~sess[s].initialized
       THEN [op |-> "lookupIdentity", s |-> s, publicKey |-> publicKey,
             initialized |-> FALSE,
             res |-> [outcome |-> "throw",
                      error |-> "IdP must be initialized before looking up identities"]]
       ELSE LET key == UserKey(publicKey, sess[s].namespace)
                data == DhtGet(store, key)
            IN [op |-> "lookupIdentity", s |-> s, publicKey |-> publicKey,
                initialized |-> TRUE, key |-> key, stored |-> data,
                res |-> LookupIdentityResult(data, publicKey)]
  /\ UNCHANGED <<sess, store, generated, now, token, issued, rawPuts, vault, published,
                 pending, server, verified>>

\* --------------------------------------------- other parties on the store
\* Any party can write any key (POST /api/dht/put, or its own webDHT.put).
\* A party can sign only with a private key it holds, and can replay, alter
\* or reorder what the store already holds.
Pubs == {k.pub : k \in Keypairs}
Namespaces == {NamespaceOf[s] : s \in Sessions}
UserKeys == {UserKey(pub, ns) : pub \in Pubs, ns \in Namespaces}

RawPut(key, value) ==
  /\ rawPuts < MaxRawPuts
  /\ rawPuts' = rawPuts + 1
  /\ store' = DhtPut(store, key, value)
  /\ published' = Unpublish(published, key)
  /\ last' = [op |-> "put", key |-> key]
  /\ UNCHANGED <<sess, generated, now, token, issued, vault, pending,
                 server, verified>>

\* A stored value is copied to a user key.
PutCopy ==
  \E k1 \in DOMAIN store :
    \E k2 \in UserKeys \ {k1} : RawPut(k2, store[k1])

\* A stored record gets its profile replaced, signature kept.
PutTampered ==
  \E k \in DOMAIN store :
    /\ Has(store[k].o, "profile")
    /\ RawPut(k, Obj(Put(store[k].o, "profile",
                         Obj(<< <<"username", Str("mallory")>> >>))))

\* A stored record gets its members reordered, keys and values kept.
PutReordered ==
  \E k \in DOMAIN store :
    /\ Has(store[k].o, "profile")
    /\ RawPut(k, Obj(Rotate(Rotate(store[k].o))))

\* The holder of keypair k stores, under its own user key, a record it signed
\* whose pub member names any public key.
PutSigned ==
  \E k \in Keypairs, pub \in Pubs, ns \in Namespaces :
    RawPut(UserKey(k.pub, ns),
           Obj(Signed(Put(IdentityData(k, << <<"username", Str("eve")>> >>, ns, now),
                          "pub", Str(pub)),
                      k.priv)))

DirectoryNext ==
  \/ \E s \in Sessions, p \in Profiles : RegisterIdentity(s, p)
  \/ \E s \in Sessions, pub \in Pubs : LookupIdentity(s, pub)
  \/ PutCopy
  \/ PutTampered
  \/ PutReordered
  \/ PutSigned
  \/ \E s \in Sessions : InitSession(s)
  \/ \E s \in Sessions : Disconnect(s)

\* The state after init() and createIdentity("k") on both sessions at the
\* first clock value.
DirectoryInit ==
  /\ sess = [s \in Sessions |-> Ready(s, IF s = "s1" THEN KeyA ELSE KeyB)]
  /\ store =
       DhtPut(DhtPut(<<>>, IdentityKey("k", NamespaceOf["s1"]),
                     Obj(PublicKeyData(KeyA, "k", NamespaceOf["s1"], MsPerSecond))),
              IdentityKey("k", NamespaceOf["s2"]),
              Obj(PublicKeyData(KeyB, "k", NamespaceOf["s2"], MsPerSecond)))
  /\ generated = Keypairs
  /\ now = MsPerSecond
  /\ token = NoToken
  /\ issued = NotIssued
  /\ rawPuts = 0
  /\ vault = <<>>
  /\ published = <<>>
  /\ pending = [s \in Sessions |-> Null]
  /\ server = NotStarted
  /\ verified = {}
  /\ last = [op |-> "createIdentity", s |-> "s2", outcome |-> "return",
             key |-> IdentityKey("k", NamespaceOf["s2"]), before |-> Undefined,
             result |-> KeyB]

DirectorySpec == DirectoryInit /\ [][DirectoryNext]_vars

\* ------------------------------------------------ the keypair's life cycle
\* One session's calls in any order; the other session is constructed only.
Owner == "s1"

IdentityNext ==
  \/ InitSession(Owner)
  \/ \E password \in Passwords, persists \in BOOLEAN :
       CreateIdentity(Owner, "k", password, persists)
  \/ \E password \in LoadPasswords : LoadIdentity(Owner, "k", password)
  \/ ClearIdentity(Owner, "k")
  \/ Disconnect(Owner)
  \/ GetPublicKeys(Owner)
  \/ \E m \in Messages : Sign(Owner, m)
  \/ \E v \in Sessions, m \in Messages, k \in Keypairs :
       Verify(v, m, Str(k.pub))
  \/ \E k \in Keypairs : Encrypt(Owner, "hi", k) \/ Encrypt(Owner, "hi", Null)
  \/ \E k \in Keypairs : Decrypt(Owner, encryptMessageWithMeta("hi", k))
  \/ ExportKeys(Owner)
  \/ \E k \in generated :
       ImportKeys(Owner, ExportedKeys(k)) \/ ImportKeys(Owner, StringKeys(k))
  \/ GenerateAuthToken(Owner, <<>>, MaxTtl, 0)
  \/ \E v \in Sessions : VerifyAuthToken(v)
  \/ RegisterIdentity(Owner, << <<"username", Str("alice")>> >>)
  \/ AuthenticateWithHub(Owner, "hub", <<>>)

IdentitySpec == Init /\ [][IdentityNext]_vars

\* --------------------------------- registerIdentity, suspended in its await
\* registerIdentity(profile) up to `await this.sign(dataString)`: the record
\* is built from this.keys and this.namespace, and sign has handed the text
\* and this.keys.priv to signMessage; the call is suspended until the
\* signature arrives.
RegisterIdentityBegin(s, profile) ==
  /\ pending[s] = Null
  /\ IF ~Truthy(sess[s].keys)
     THEN /\ last' = [op |-> "registerIdentity", s |-> s, outcome |-> "throw",
                      error |-> NoIdentity]
          /\ UNCHANGED pending
     ELSE /\ pending' =
               [pending EXCEPT ![s] =
                  [t |-> "call", profile |-> profile,
                   identityData |->
                     Signed(IdentityData(sess[s].keys, profile,
                                         sess[s].namespace, now),
                            sess[s].keys.priv)]]
          /\ last' = [op |-> "registerIdentity:await", s |-> s]
  /\ UNCHANGED <<sess, store, generated, now, token, issued, rawPuts, vault,
                 published, server, verified>>

\* The key of the put after the await: this.keys.pub and this.namespace are
\* read when the call resumes.  Undefined stands for the TypeError of
\* reading .put of a null webDHT or .pub of a keypair that is gone.
ResumeKey(session, identityData) ==
  IF session.webDHT = Null \/ ~Truthy(session.keys) THEN Undefined
  ELSE Str(UserKey(session.keys.pub, session.namespace))

\* registerIdentity from the arrival of the signature to its end.
RegisterIdentityResume(s) ==
  /\ pending[s] # Null
  /\ pending[s].t = "call"
  /\ pending' = [pending EXCEPT ![s] = Null]
  /\ LET identityData == pending[s].identityData
         key == ResumeKey(sess[s], identityData)
     IN IF key = Undefined
        THEN /\ last' = [op |-> "registerIdentity", s |-> s,
                         outcome |-> "throw", error |-> "TypeError"]
             /\ UNCHANGED <<store, published, server, verified>>
        ELSE /\ store' = DhtPut(store, key.s, Obj(identityData))
             /\ published' =
                  [k \in DOMAIN published \cup {key.s} |->
                     IF k = key.s
                     THEN [s |-> s, profile |-> pending[s].profile,
                           keys |-> sess[s].keys,
                           namespace |-> sess[s].namespace]
                     ELSE published[k]]
             /\ last' = [op |-> "registerIdentity", s |-> s,
                         outcome |-> "return", key |-> key.s,
                         before |-> DhtGet(store, key.s),
                         record |-> identityData]
  /\ UNCHANGED <<sess, generated, now, token, issued, rawPuts, vault,
                 server, verified>>

\* One session's registerIdentity calls and, while one is suspended or not,
\* the calls that replace or drop the session's keypair.
SuspendedNext ==
  \/ InitSession(Owner)
  \/ CreateIdentity(Owner, "k", Str("pw"), TRUE)
  \/ \E password \in LoadPasswords : LoadIdentity(Owner, "k", password)
  \/ \E k \in Keypairs : ImportKeys(Owner, StringKeys(k))
  \/ ClearIdentity(Owner, "k")
  \/ Disconnect(Owner)
  \/ \E profile \in Profiles : RegisterIdentityBegin(Owner, profile)
  \/ RegisterIdentityResume(Owner)

SuspendedSpec == Init /\ [][SuspendedNext]_vars

\* ------------------------------------------- two sessions, interleaved
\* The calls of both session instances in any order, over one key storage
\* and one directory store.
InterleavedNext ==
  \E s \in Sessions :
    \/ InitSession(s)
    \/ CreateIdentity(s, "k", Str("pw"), TRUE)
    \/ LoadIdentity(s, "k", Str("pw"))
    \/ ClearIdentity(s, "k")
    \/ \E k \in generated : ImportKeys(s, StringKeys(k))
    \/ RegisterIdentity(s, << <<"username", Str("alice")>> >>)
    \/ Disconnect(s)

InterleavedSpec == Init /\ [][InterleavedNext]_vars

\* ------------------------------------------------ authentication with a hub
\* The keys of the authentication requests stored for a hub.
IsAuthKey(key, hubNamespace) ==
  LET prefix == "auth:" \o hubNamespace \o ":"
  IN Len(key) >= Len(prefix) /\ SubSeq(key, 1, Len(prefix)) = prefix

\* authenticateWithHub(hubNamespace, credentials) up to `await
\* this.webDHT.put(requestKey, authRequest)`: the signed request is stored
\* for the hub and the call is suspended until the put is done.
AuthenticateWithHubBegin(s, hubNamespace, credentials) ==
  /\ pending[s] = Null
  /\ Cardinality({k \in DOMAIN store : IsAuthKey(k, hubNamespace)})
       < MaxAuthRequests
  /\ IF ~Truthy(sess[s].keys)
     THEN /\ last' = [op |-> "authenticateWithHub", s |-> s,
                      outcome |-> "throw", error |-> NoIdentity]
          /\ UNCHANGED <<store, published, pending>>
     ELSE IF sess[s].webDHT = Null
     THEN /\ last' = [op |-> "authenticateWithHub", s |-> s,
                      outcome |-> "throw", error |-> "TypeError"]
          /\ UNCHANGED <<store, published, pending>>
     ELSE LET keys == sess[s].keys
              authRequest ==
                Signed(AuthRequest(keys.pub, hubNamespace, now, credentials),
                       keys.priv)
              requestKey == RequestKey(hubNamespace, keys.pub, now)
          IN /\ store' = DhtPut(store, requestKey, Obj(authRequest))
             /\ published' = Unpublish(published, requestKey)
             /\ pending' = [pending EXCEPT ![s] =
                              [t |-> "auth", hubNamespace |-> hubNamespace,
                               credentials |-> credentials,
                               requestKey |-> requestKey]]
             /\ last' = [op |-> "authenticateWithHub:await", s |-> s,
                         requestKey |-> requestKey]
  /\ UNCHANGED <<sess, generated, now, token, issued, rawPuts, vault, server,
                 verified>>

\* What authenticateWithHub returns once the put is done: a token it
\* generates itself, with {hub, ...credentials} and the default expiresIn.
\* Nothing the hub has written or verified is read.
AuthResult(session, call, t) ==
  IF ~Truthy(session.keys)
  THEN [outcome |-> "throw", error |-> NoIdentity]
  ELSE LET tokenClaims ==
             AuthTokenClaims(Spread(<< <<"hub", Str(call.hubNamespace)>> >>,
                                    call.credentials),
                             session.namespace, session.keys.pub, Seconds(t),
                             Seconds(t) + DefaultExpiresIn)
       IN [outcome |-> "return", success |-> TRUE,
           token |-> [claims |-> Obj(tokenClaims),
                      signature |->
                        Str(signMessage(StringifyValue(Obj(tokenClaims)),
                                        session.keys.priv))],
           requestKey |-> call.requestKey]

\* authenticateWithHub from the completion of the put to its end.
AuthenticateWithHubResume(s) ==
  /\ pending[s] # Null
  /\ pending[s].t = "auth"
  /\ pending' = [pending EXCEPT ![s] = Null]
  /\ last' = [op |-> "authenticateWithHub", s |-> s,
               hubNamespace |-> pending[s].hubNamespace,
               credentials |-> pending[s].credentials]
               @@ AuthResult(sess[s], pending[s], now)
  /\ UNCHANGED <<sess, store, generated, now, token, issued, rawPuts, vault,
                 published, server, verified>>

\* The hub server (README, Authentication Flow): it reads an authentication
\* request stored under its namespace, verifies the request's signature
\* under the request's publicKey and processes it.
HubVerify(hubNamespace) ==
  \E key \in DOMAIN store \ verified :
    /\ IsAuthKey(key, hubNamespace)
    /\ Has(store[key].o, "publicKey")
    /\ verifyMessage(StringifyValue(Obj(Rest(store[key].o, "signature"))),
                     Get(store[key].o, "signature"),
                     Get(store[key].o, "publicKey"))
    /\ verified' = verified \cup {key}
    /\ last' = [op |-> "hub", key |-> key]
    /\ UNCHANGED <<sess, store, generated, now, token, issued, rawPuts,
                   vault, published, pending, server>>

\* One session authenticates with the hub while the hub goes its own pace.
HubNext ==
  \/ InitSession(Owner)
  \/ Disconnect(Owner)
  \/ Tick
  \/ \E hub \in Hubs, credentials \in Credentials :
       AuthenticateWithHubBegin(Owner, hub, credentials)
  \/ AuthenticateWithHubResume(Owner)
  \/ \E hub \in Hubs : HubVerify(hub)

HubSpec == TokenInit /\ [][HubNext]_vars

\* ==================================================================== SAML
\* ------------------------------------------------------ strings (saml.js)
\* String(v), as escapeXml applies it to what it is given.
String(v) ==
  CASE v.t = "str" -> v.s
    [] v.t = "num" -> ToString(v.n)
    [] v.t = "null" -> "null"
    [] OTHER -> "undefined"

\* s.replace(/c/g, r) for a single character c.
RECURSIVE ReplaceAll(_, _, _)
ReplaceAll(s, c, r) ==
  IF s = "" THEN ""
  ELSE (IF Head(s) = c THEN r ELSE Head(s)) \o ReplaceAll(Tail(s), c, r)

\* escapeXml: five replacements in this order, & first.
escapeXml(unsafe) ==
  ReplaceAll(ReplaceAll(ReplaceAll(ReplaceAll(ReplaceAll(String(unsafe),
    "&", "&amp;"), "<", "&lt;"), ">", "&gt;"), "\"", "&quot;"), "'", "&apos;")

\* publicKey.replace(/\n/g, '')
RemoveNewlines(s) == ReplaceAll(s, "\n", "")

\* new Date(ms).toISOString() for the instants of the model, which lie in
\* 1970 and 1971 (no leap year).  An instant is a number of days plus a
\* number of milliseconds, as the numbers of the model have 32 bits.
MsPerDay == 86400000
DaysPerYear == 365
MonthLengths == <<31, 28, 31, 30, 31, 30, 31, 31, 30, 31, 30, 31>>
Pad(n, width) ==
  LET d == ToString(n)
  IN SubSeq("000", 1, width - Len(d)) \o d
RECURSIVE MonthOf(_, _)
MonthOf(dayOfYear, month) ==
  IF dayOfYear < MonthLengths[month] THEN <<month, dayOfYear + 1>>
  ELSE MonthOf(dayOfYear - MonthLengths[month], month + 1)
toISOString(days, ms) ==
  LET d == days + ms \div MsPerDay
      md == MonthOf(d % DaysPerYear, 1)
      t == ms % MsPerDay
  IN ToString(1970 + d \div DaysPerYear) \o "-" \o Pad(md[1], 2) \o "-"
     \o Pad(md[2], 2) \o "T" \o Pad(t \div 3600000, 2) \o ":"
     \o Pad((t \div 60000) % 60, 2) \o ":" \o Pad((t \div 1000) % 60, 2)
     \o "." \o Pad(t % 1000, 3) \o "Z"

\* Buffer.from(s).toString('base64') and Buffer.from(e, 'base64')
\* .toString('utf-8'), on the characters of the documents: the printable
\* ASCII characters (codes 32 to 95 and 97 to 126) and the line feed (10).
Printable ==
  " !\"#$%&'()*+,-./0123456789:;<=>?@ABCDEFGHIJKLMNOPQRSTUVWXYZ[\\]^_"
PrintableFrom97 == "abcdefghijklmnopqrstuvwxyz{|}~"
Base64Alphabet ==
  "ABCDEFGHIJKLMNOPQRSTUVWXYZabcdefghijklmnopqrstuvwxyz0123456789+/"
CharAt(s, i) == SubSeq(s, i, i)
Chars(table) == {CharAt(table, i) : i \in 1..Len(table)}
IndexIn(table, c) == CHOOSE i \in 1..Len(table) : CharAt(table, i) = c
CharCode ==
  [c \in {"\n"} \cup Chars(Printable) \cup Chars(PrintableFrom97) |->
     IF c = "\n" THEN 10
     ELSE IF c \in Chars(Printable) THEN IndexIn(Printable, c) + 31
     ELSE IndexIn(PrintableFrom97, c) + 96]
FromCharCode(n) ==
  IF n = 10 THEN "\n"
  ELSE IF n < 96 THEN CharAt(Printable, n - 31)
  ELSE CharAt(PrintableFrom97, n - 96)
Digit64(n) == CharAt(Base64Alphabet, n + 1)
Value64 == [c \in Chars(Base64Alphabet) |-> IndexIn(Base64Alphabet, c) - 1]

\* One group of one, two or three characters to four base64 characters.
EncodeGroup(g) ==
  LET a == CharCode[CharAt(g, 1)]
      b == IF Len(g) > 1 THEN CharCode[CharAt(g, 2)] ELSE 0
      c == IF Len(g) > 2 THEN CharCode[CharAt(g, 3)] ELSE 0
      n == a * 65536 + b * 256 + c
  IN Digit64(n \div 262144) \o Digit64((n \div 4096) % 64)
     \o (IF Len(g) > 1 THEN Digit64((n \div 64) % 64) ELSE "=")
     \o (IF Len(g) > 2 THEN Digit64(n % 64) ELSE "=")

\* Four base64 characters to the one, two or three characters they encode.
DecodeGroup(g) ==
  LET pad == IF CharAt(g, 3) = "=" THEN 2 ELSE IF CharAt(g, 4) = "=" THEN 1
             ELSE 0
      n == Value64[CharAt(g, 1)] * 262144 + Value64[CharAt(g, 2)] * 4096
           + (IF pad < 2 THEN Value64[CharAt(g, 3)] * 64 ELSE 0)
           + (IF pad < 1 THEN Value64[CharAt(g, 4)] ELSE 0)
  IN FromCharCode(n \div 65536)
     \o (IF pad < 2 THEN FromCharCode((n \div 256) % 256) ELSE "")
     \o (IF pad < 1 THEN FromCharCode(n % 256) ELSE "")

\* A string is converted group by group, the halves of a long string apart.
Half(s, size) == ((Len(s) \div size + 1) \div 2) * size

RECURSIVE encodeSAMLResponse(_)
encodeSAMLResponse(samlResponse) ==
  IF samlResponse = "" THEN ""
  ELSE IF Len(samlResponse) <= 3 THEN EncodeGroup(samlResponse)
  ELSE LET half == Half(samlResponse, 3)
       IN encodeSAMLResponse(SubSeq(samlResponse, 1, half))
          \o encodeSAMLResponse(SubSeq(samlResponse, half + 1,
                                       Len(samlResponse)))

RECURSIVE decodeSAMLRequest(_)
decodeSAMLRequest(encodedRequest) ==
  IF encodedRequest = "" THEN ""
  ELSE IF Len(encodedRequest) <= 4 THEN DecodeGroup(encodedRequest)
  ELSE LET half == Half(encodedRequest, 4)
       IN decodeSAMLRequest(SubSeq(encodedRequest, 1, half))
          \o decodeSAMLRequest(SubSeq(encodedRequest, half + 1,
                                      Len(encodedRequest)))

\* ------------------------------------------------ documents (saml.js)
DefaultLifetimeSeconds == 300   \* lifetimeSeconds = 300
ValidityDays == 365             \* validUntil: 365 * 24 * 60 * 60 * 1000 ms

\* generateId(): twenty random bytes in hexadecimal; the draws of the model
\* are shorter.  A call draws its identifiers one after the other.
IdDraws == {<<"1f", "2e", "3d">>, <<"3d", "3d", "1f">>}

\* An array value of an attribute.
Arr(a) == [t |-> "arr", a |-> a]

\* values.map(v => `<saml:AttributeValue ...>`).join('')
RECURSIVE AttributeValues(_)
AttributeValues(values) ==
  IF values = <<>> THEN ""
  ELSE
       "<saml:AttributeValue xsi:type=\"xs:string\">"
       \o escapeXml(values[1])
       \o "</saml:AttributeValue>"
       \o AttributeValues(Tail(values))

\* One entry of Object.entries(attributes).
AttributeXml(name, value) ==
  LET values == IF value.t = "arr" THEN value.a ELSE <<value>>
      attributeValues == AttributeValues(values)
  IN
     "<saml:Attribute Name=\""
     \o escapeXml(Str(name))
     \o "\" NameFormat=\"urn:oasis:names:tc:SAML:2.0:attrname-format:ba"
     \o "sic\">\n"
     \o "        "
     \o attributeValues
     \o "\n"
     \o "      </saml:Attribute>"

\* Object.entries(attributes).map(...).join('\n      ')
RECURSIVE Attrs(_)
Attrs(attributes) ==
  IF Len(attributes) = 1
  THEN AttributeXml(attributes[1][1], attributes[1][2])
  ELSE AttributeXml(attributes[1][1], attributes[1][2]) \o "\n      "
       \o Attrs(Tail(attributes))

AttributeStatements(attributes) ==
  IF Len(attributes) > 0
  THEN LET attrs == Attrs(attributes)
       IN
          "<saml:AttributeStatement>\n"
          \o "      "
          \o attrs
          \o "\n"
          \o "    </saml:AttributeStatement>"
  ELSE ""

\* Mutant of AssertionResult: the signature is over the assertion's ID.
AssertionResultSignsId(assertion, assertionId, signFunction) ==
  IF Truthy(signFunction)
  THEN LET signed == SignResult(signFunction.keys, assertionId)
       IN IF signed.outcome = "throw" THEN signed
          ELSE [outcome |-> "return", assertion |-> assertion,
                signature |-> signed.result, assertionId |-> assertionId]
  ELSE [outcome |-> "return", assertion |-> assertion,
        assertionId |-> assertionId]

\* The end of generateSAMLAssertion: the assertion is signed when a signing
\* function is given; a signing function that throws ends the call.
AssertionResult(assertion, assertionId, signFunction) ==
  IF Truthy(signFunction)
  THEN LET signed == SignResult(signFunction.keys, assertion)
       IN IF signed.outcome = "throw" THEN signed
          ELSE [outcome |-> "return", assertion |-> assertion,
                signature |-> signed.result, assertionId |-> assertionId]
  ELSE [outcome |-> "return", assertion |-> assertion,
        assertionId |-> assertionId]

\* generateSAMLAssertion(options).  The clock is read twice: t1 by
\* new Date() for issueInstant, t2 by Date.now() for notOnOrAfter.
generateSAMLAssertion(options, t1, t2, ids) ==
  LET attributes == IF options.attributes = Undefined THEN <<>>
                    ELSE options.attributes.o
      lifetimeSeconds == IF options.lifetimeSeconds = Undefined
                         THEN DefaultLifetimeSeconds
                         ELSE options.lifetimeSeconds.n
      assertionId == "_" \o ids[1]
      issueInstant == toISOString(0, t1)
      notBefore == issueInstant
      notOnOrAfter == toISOString(0, t2 + lifetimeSeconds * MsPerSecond)
      authnInstant == issueInstant
      sessionIndex == "_" \o ids[2]
      attributeStatements == AttributeStatements(attributes)
      assertion ==
        "<?xml version=\"1.0\" encoding=\"UTF-8\"?>\n"
        \o "<saml:Assertion xmlns:saml=\"urn:oasis:names:tc:SAML:2.0:asse"
        \o "rtion\"\n"
        \o "                xmlns:xs=\"http://www.w3.org/2001/XMLSchema\"\n"
        \o "                xmlns:xsi=\"http://www.w3.org/2001/XMLSchema-"
        \o "instance\"\n"
        \o "                ID=\""
        \o assertionId
        \o "\"\n"
        \o "                Version=\"2.0\"\n"
        \o "                IssueInstant=\""
        \o issueInstant
        \o "\">\n"
        \o "  <saml:Issuer>"
        \o escapeXml(options.issuer)
        \o "</saml:Issuer>\n"
        \o "  <saml:Subject>\n"
        \o "    <saml:NameID Format=\"urn:oasis:names:tc:SAML:1.1:nameid-"
        \o "format:unspecified\">"
        \o escapeXml(options.subject)
        \o "</saml:NameID>\n"
        \o "    <saml:SubjectConfirmation Method=\"urn:oasis:names:tc:SAM"
        \o "L:2.0:cm:bearer\">\n"
        \o "      <saml:SubjectConfirmationData NotOnOrAfter=\""
        \o notOnOrAfter
        \o "\"\n"
        \o "                                     Recipient=\""
        \o escapeXml(options.recipient)
        \o "\"\n"
        \o "                                     InResponseTo=\"_request_"
        \o "id\"/>\n"
        \o "    </saml:SubjectConfirmation>\n"
        \o "  </saml:Subject>\n"
        \o "  <saml:Conditions NotBefore=\""
        \o notBefore
        \o "\" NotOnOrAfter=\""
        \o notOnOrAfter
        \o "\">\n"
        \o "    <saml:AudienceRestriction>\n"
        \o "      <saml:Audience>"
        \o escapeXml(options.audienceRestriction)
        \o "</saml:Audience>\n"
        \o "    </saml:AudienceRestriction>\n"
        \o "  </saml:Conditions>\n"
        \o "  <saml:AuthnStatement AuthnInstant=\""
        \o authnInstant
        \o "\" SessionIndex=\""
        \o sessionIndex
        \o "\">\n"
        \o "    <saml:AuthnContext>\n"
        \o "      <saml:AuthnContextClassRef>urn:oasis:names:tc:SAML:2.0"
        \o ":ac:classes:unspecified</saml:AuthnContextClassRef>\n"
        \o "    </saml:AuthnContext>\n"
        \o "  </saml:AuthnStatement>\n"
        \o "  "
        \o attributeStatements
        \o "\n"
        \o "</saml:Assertion>"
  IN AssertionResult(assertion, assertionId, options.signFunction)

\* generateSAMLResponse(options)
generateSAMLResponse(options, t, id) ==
  LET inResponseTo == IF options.inResponseTo = Undefined
                      THEN Str("_request_id") ELSE options.inResponseTo
      statusCode == IF options.statusCode = Undefined
                    THEN Str("urn:oasis:names:tc:SAML:2.0:status:Success")
                    ELSE options.statusCode
      responseId == "_" \o id
      issueInstant == toISOString(0, t)
  IN
    "<?xml version=\"1.0\" encoding=\"UTF-8\"?>\n"
    \o "<samlp:Response xmlns:samlp=\"urn:oasis:names:tc:SAML:2.0:pro"
    \o "tocol\"\n"
    \o "                xmlns:saml=\"urn:oasis:names:tc:SAML:2.0:asse"
    \o "rtion\"\n"
    \o "                ID=\""
    \o responseId
    \o "\"\n"
    \o "                Version=\"2.0\"\n"
    \o "                IssueInstant=\""
    \o issueInstant
    \o "\"\n"
    \o "                Destination=\""
    \o escapeXml(options.destination)
    \o "\"\n"
    \o "                InResponseTo=\""
    \o String(inResponseTo)
    \o "\">\n"
    \o "  <saml:Issuer>"
    \o escapeXml(options.issuer)
    \o "</saml:Issuer>\n"
    \o "  <samlp:Status>\n"
    \o "    <samlp:StatusCode Value=\""
    \o String(statusCode)
    \o "\"/>\n"
    \o "  </samlp:Status>\n"
    \o "  "
    \o String(options.assertion)
    \o "\n"
    \o "</samlp:Response>"

\* generateIdPMetadata(options)
generateIdPMetadata(options, t) ==
  LET organizationName == IF options.organizationName = Undefined
                          THEN Str("PigeonIdP") ELSE options.organizationName
      contactEmail == IF options.contactEmail = Undefined
                      THEN Str("admin@example.com") ELSE options.contactEmail
      validUntil == toISOString(ValidityDays, t)
  IN
    "<?xml version=\"1.0\" encoding=\"UTF-8\"?>\n"
    \o "<md:EntityDescriptor xmlns:md=\"urn:oasis:names:tc:SAML:2.0:m"
    \o "etadata\"\n"
    \o "                     xmlns:ds=\"http://www.w3.org/2000/09/xml"
    \o "dsig#\"\n"
    \o "                     entityID=\""
    \o escapeXml(options.entityId)
    \o "\"\n"
    \o "                     validUntil=\""
    \o validUntil
    \o "\">\n"
    \o "  <md:IDPSSODescriptor protocolSupportEnumeration=\"urn:oasis"
    \o ":names:tc:SAML:2.0:protocol\">\n"
    \o "    <md:KeyDescriptor use=\"signing\">\n"
    \o "      <ds:KeyInfo>\n"
    \o "        <ds:X509Data>\n"
    \o "          <ds:X509Certificate>"
    \o RemoveNewlines(options.publicKey.s)
    \o "</ds:X509Certificate>\n"
    \o "        </ds:X509Data>\n"
    \o "      </ds:KeyInfo>\n"
    \o "    </md:KeyDescriptor>\n"
    \o "    <md:NameIDFormat>urn:oasis:names:tc:SAML:1.1:nameid-form"
    \o "at:unspecified</md:NameIDFormat>\n"
    \o "    <md:NameIDFormat>urn:oasis:names:tc:SAML:2.0:nameid-form"
    \o "at:persistent</md:NameIDFormat>\n"
    \o "    <md:SingleSignOnService Binding=\"urn:oasis:names:tc:SAML"
    \o ":2.0:bindings:HTTP-POST\"\n"
    \o "                            Location=\""
    \o escapeXml(options.ssoUrl)
    \o "\"/>\n"
    \o "    <md:SingleSignOnService Binding=\"urn:oasis:names:tc:SAML"
    \o ":2.0:bindings:HTTP-Redirect\"\n"
    \o "                            Location=\""
    \o escapeXml(options.ssoUrl)
    \o "\"/>\n"
    \o "  </md:IDPSSODescriptor>\n"
    \o "  <md:Organization>\n"
    \o "    <md:OrganizationName xml:lang=\"en\">"
    \o escapeXml(organizationName)
    \o "</md:OrganizationName>\n"
    \o "    <md:OrganizationDisplayName xml:lang=\"en\">"
    \o escapeXml(organizationName)
    \o "</md:OrganizationDisplayName>\n"
    \o "    <md:OrganizationURL xml:lang=\"en\">"
    \o escapeXml(options.entityId)
    \o "</md:OrganizationURL>\n"
    \o "  </md:Organization>\n"
    \o "  <md:ContactPerson contactType=\"technical\">\n"
    \o "    <md:EmailAddress>"
    \o escapeXml(contactEmail)
    \o "</md:EmailAddress>\n"
    \o "  </md:ContactPerson>\n"
    \o "</md:EntityDescriptor>"

\* generateSAMLPostForm(acsUrl, samlResponse, relayState = '')
generateSAMLPostForm(acsUrl, samlResponse, relayStateArg) ==
  LET relayState == IF relayStateArg = Undefined THEN Str("")
                    ELSE relayStateArg
      relayStateInput ==
        IF Truthy(relayState)
        THEN
             "<input type=\"hidden\" name=\"RelayState\" value=\""
             \o escapeXml(relayState)
             \o "\"/>"
        ELSE ""
  IN
    "<!DOCTYPE html>\n"
    \o "<html>\n"
    \o "<head>\n"
    \o "  <title>SAML POST</title>\n"
    \o "</head>\n"
    \o "<body onload=\"document.forms[0].submit()\">\n"
    \o "  <form method=\"POST\" action=\""
    \o escapeXml(acsUrl)
    \o "\">\n"
    \o "    <input type=\"hidden\" name=\"SAMLResponse\" value=\""
    \o escapeXml(samlResponse)
    \o "\"/>\n"
    \o "    "
    \o relayStateInput
    \o "\n"
    \o "    <noscript>\n"
    \o "      <button type=\"submit\">Continue</button>\n"
    \o "    </noscript>\n"
    \o "  </form>\n"
    \o "</body>\n"
    \o "</html>"

\* Mutant of generateAssertionOptions: the audience is the recipient.
generateAssertionOptionsSwapped(session, config, user, recipient, audience) ==
  [issuer |-> config.entityId,
   recipient |-> recipient,
   subject |-> IF Truthy(user.id) THEN user.id ELSE user.username,
   attributes |-> IF Truthy(user.attributes) THEN user.attributes
                  ELSE Obj(<<>>),
   audienceRestriction |-> recipient,
   lifetimeSeconds |-> IF Truthy(config.assertionLifetime)
                       THEN config.assertionLifetime
                       ELSE Num(DefaultLifetimeSeconds),
   signFunction |-> [t |-> "fn", keys |-> session.keys]]

\* --------------------------------------------------- PigeonIdPSAML (saml.js)
\* PigeonIdPSAML.generateAssertion(user, recipient, audience) of an extension
\* constructed with (idp, config); session is the idp.
generateAssertionOptions(session, config, user, recipient, audience) ==
  [issuer |-> config.entityId,
   recipient |-> recipient,
   subject |-> IF Truthy(user.id) THEN user.id ELSE user.username,
   attributes |-> IF Truthy(user.attributes) THEN user.attributes
                  ELSE Obj(<<>>),
   audienceRestriction |-> audience,
   lifetimeSeconds |-> IF Truthy(config.assertionLifetime)
                       THEN config.assertionLifetime
                       ELSE Num(DefaultLifetimeSeconds),
   signFunction |-> [t |-> "fn", keys |-> session.keys]]

\* PigeonIdPSAML.generateResponse: the options it gives generateSAMLResponse
\* once generateAssertion has returned.
generateResponseOptions(config, assertion, destination, inResponseTo) ==
  [assertion |-> Str(assertion), issuer |-> config.entityId,
   destination |-> destination, inResponseTo |-> inResponseTo,
   statusCode |-> Undefined]

\* Mutant of getMetadataOptions: the encryption public key is published.
getMetadataOptionsEncryptionKey(session, config) ==
  [entityId |-> config.entityId, ssoUrl |-> config.ssoUrl,
   publicKey |-> IF getPublicKeys(session) = Null THEN Str("")
                 ELSE Get(getPublicKeys(session).o, "epub"),
   organizationName |-> config.organizationName,
   contactEmail |-> config.contactEmail]

\* PigeonIdPSAML.getMetadata: this.idp.getPublicKeys()?.pub || ''
getMetadataOptions(session, config) ==
  [entityId |-> config.entityId, ssoUrl |-> config.ssoUrl,
   publicKey |-> IF getPublicKeys(session) = Null THEN Str("")
                 ELSE Get(getPublicKeys(session).o, "pub"),
   organizationName |-> config.organizationName,
   contactEmail |-> config.contactEmail]

\* The configurations, users and service providers of the model.
SamlConfigs ==
  { [entityId |-> Str("https://idp.example"),
     ssoUrl |-> Str("https://idp.example/sso"),
     assertionLifetime |-> Undefined, organizationName |-> Undefined,
     contactEmail |-> Undefined],
    [entityId |-> Str("idp&co"), ssoUrl |-> Str("https://idp/sso?a=1&b=2"),
     assertionLifetime |-> Num(60), organizationName |-> Str("R&D <x>"),
     contactEmail |-> Str("o'neil@x")],
    [entityId |-> Str("https://idp.example"),
     ssoUrl |-> Str("https://idp.example/sso"),
     assertionLifetime |-> Num(0), organizationName |-> Undefined,
     contactEmail |-> Undefined] }
SamlUsers ==
  { [id |-> Undefined, username |-> Str("alice"), attributes |-> Undefined],
    [id |-> Str("u<1>"), username |-> Str("bob"),
     attributes |->
       Obj(<< <<"email", Str("b@x")>>,
              <<"role\"s",
                Arr(<<Str("a&b"),
                      Str("<saml:Audience>https://sp</saml:Audience>")>>)>> >>)] }
ServiceProviders ==
  { [acsUrl |-> Str("https://sp/acs"), entityId |-> Str("https://sp")],
    [acsUrl |-> Str("https://sp/acs?x=\"1\""), entityId |-> Str("sp<2>")] }
RequestIds == {Str("_req1"), Str("a\"b"), Undefined}
ClockSteps == {0, MsPerSecond \div 2}

\* The calls made: a plain one, and one with markup characters in each field.
SamlCalls ==
  { [config |-> c, user |-> u, sp |-> p] :
      c \in SamlConfigs, u \in SamlUsers, p \in ServiceProviders }
SamlCallsMade ==
  { call \in SamlCalls :
      (call.config.assertionLifetime = Undefined)
        = (call.user.id = Undefined)
      /\ (call.user.id = Undefined) = (call.sp.entityId = Str("https://sp")) }

\* PigeonIdPSAML.generateAssertion on the extension of session s.
SamlGenerateAssertion(s, call, d, ids) ==
  LET options == generateAssertionOptions(sess[s], call.config, call.user,
                                          call.sp.acsUrl, call.sp.entityId)
  IN /\ now + d <= MaxSeconds * MsPerSecond
     /\ now' = now + d
     /\ last' = [op |-> "generateAssertion", s |-> s, config |-> call.config,
                 recipient |-> call.sp.acsUrl, audience |-> call.sp.entityId,
                 fn |-> "generateSAMLAssertion", options |-> options,
                 t1 |-> now, t2 |-> now + d, ids |-> ids,
                 res |-> generateSAMLAssertion(options, now, now + d, ids)]
     /\ UNCHANGED <<sess, store, generated, token, issued, rawPuts, vault,
                    published, pending, server, verified>>

\* generateSAMLAssertion called on its own, without lifetimeSeconds and
\* without a signing function.
CallGenerateSAMLAssertion(call, d, ids) ==
  LET options == [issuer |-> call.config.entityId,
                  recipient |-> call.sp.acsUrl,
                  subject |-> call.user.username,
                  attributes |-> call.user.attributes,
                  audienceRestriction |-> call.sp.entityId,
                  lifetimeSeconds |-> Undefined,
                  signFunction |-> Undefined]
  IN /\ now + d <= MaxSeconds * MsPerSecond
     /\ now' = now + d
     /\ last' = [op |-> "generateSAMLAssertion",
                 recipient |-> call.sp.acsUrl, audience |-> call.sp.entityId,
                 fn |-> "generateSAMLAssertion", options |-> options,
                 t1 |-> now, t2 |-> now + d, ids |-> ids,
                 res |-> generateSAMLAssertion(options, now, now + d, ids)]
     /\ UNCHANGED <<sess, store, generated, token, issued, rawPuts, vault,
                    published, pending, server, verified>>

\* PigeonIdPSAML.generateResponse(user, destination, audience, inResponseTo)
SamlGenerateResponse(s, call, inResponseTo, d, ids) ==
  LET assertionOptions ==
        generateAssertionOptions(sess[s], call.config, call.user,
                                 call.sp.acsUrl, call.sp.entityId)
      generated1 == generateSAMLAssertion(assertionOptions, now, now + d, ids)
      options == generateResponseOptions(call.config, generated1.assertion,
                                         call.sp.acsUrl, inResponseTo)
      response == generateSAMLResponse(options, now + d, ids[3])
  IN /\ now + d <= MaxSeconds * MsPerSecond
     /\ now' = now + d
     /\ last' =
          IF generated1.outcome = "throw"
          THEN [op |-> "generateResponse", s |-> s, fn |-> "",
                destination |-> call.sp.acsUrl,
                inResponseTo |-> inResponseTo, res |-> generated1]
          ELSE [op |-> "generateResponse", s |-> s,
                fn |-> "generateSAMLResponse", options |-> options,
                t1 |-> now + d, id |-> ids[3],
                destination |-> call.sp.acsUrl,
                inResponseTo |-> inResponseTo,
                res |-> [outcome |-> "return", xml |-> response,
                         result |-> encodeSAMLResponse(response)]]
     /\ UNCHANGED <<sess, store, generated, token, issued, rawPuts, vault,
                    published, pending, server, verified>>

\* generateSAMLResponse called on its own, with a status code.
StatusCodes == {Str("urn:oasis:names:tc:SAML:2.0:status:Requester"),
                Str("x\"/><y z=\"")}
CallGenerateSAMLResponse(statusCode, id) ==
  LET options == [assertion |-> Str("<saml:Assertion/>"),
                  issuer |-> Str("idp&co"), destination |-> Str("https://sp/acs"),
                  inResponseTo |-> Undefined, statusCode |-> statusCode]
  IN /\ last' = [op |-> "generateSAMLResponse",
                 fn |-> "generateSAMLResponse", options |-> options,
                 t1 |-> now, id |-> id,
                 res |-> [outcome |-> "return",
                          xml |-> generateSAMLResponse(options, now, id)]]
     /\ UNCHANGED <<sess, store, generated, now, token, issued, rawPuts,
                    vault, published, pending, server, verified>>

\* PigeonIdPSAML.getMetadata on the extension of session s.
SamlGetMetadata(s, config) ==
  LET options == getMetadataOptions(sess[s], config)
  IN /\ last' = [op |-> "getMetadata", s |-> s,
                 fn |-> "generateIdPMetadata", options |-> options,
                 t1 |-> now,
                 res |-> [outcome |-> "return",
                          xml |-> generateIdPMetadata(options, now)]]
     /\ UNCHANGED <<sess, store, generated, now, token, issued, rawPuts,
                    vault, published, pending, server, verified>>

\* generateSAMLPostForm(acsUrl, samlResponse, relayState)
RelayStates == {Undefined, Str("/home?a=1&b='2'")}
CallGenerateSAMLPostForm(acsUrl, samlResponse, relayState) ==
  LET options == [acsUrl |-> acsUrl, samlResponse |-> samlResponse,
                  relayState |-> relayState]
  IN /\ last' = [op |-> "generateSAMLPostForm",
                 fn |-> "generateSAMLPostForm", options |-> options,
                 res |-> [outcome |-> "return",
                          xml |-> generateSAMLPostForm(acsUrl, samlResponse,
                                                       relayState)]]
     /\ UNCHANGED <<sess, store, generated, now, token, issued, rawPuts,
                    vault, published, pending, server, verified>>

SamlNext ==
  \/ \E s \in Sessions, call \in SamlCallsMade, d \in ClockSteps,
        ids \in IdDraws : SamlGenerateAssertion(s, call, d, ids)
  \/ \E call \in SamlCallsMade, d \in ClockSteps, ids \in IdDraws :
       CallGenerateSAMLAssertion(call, d, ids)
  \/ \E s \in Sessions, call \in SamlCallsMade, r \in RequestIds,
        d \in ClockSteps :
       SamlGenerateResponse(s, call, r, d, <<"1f", "2e", "3d">>)
  \/ \E c \in StatusCodes : CallGenerateSAMLResponse(c, "3d")
  \/ \E s \in Sessions, c \in SamlConfigs : SamlGetMetadata(s, c)
  \/ \E p \in ServiceProviders, r \in RelayStates :
       CallGenerateSAMLPostForm(p.acsUrl, Str(encodeSAMLResponse("<a/>")), r)

\* The extension is bound to a session that has created its identity (s1)
\* or to one that has not (s2).
SamlSpec == TokenInit /\ [][Tick \/ SamlNext]_vars

\* ------------------------------------------------- the HTTP server (server.js)
\* The server's PigeonIdP instance and the configuration of its SAML
\* extension (NAMESPACE is the namespace of the instance).
ServerIdp == "s1"
ServerLifetimeSeconds == 300    \* parseInt(process.env.ASSERTION_LIFETIME || '300')
ServerSamlConfig ==
  [entityId |-> Str("https://" \o NamespaceOf[ServerIdp] \o ".fly.dev"),
   ssoUrl |-> Str("https://" \o NamespaceOf[ServerIdp] \o ".fly.dev/saml/sso"),
   organizationName |-> Str("PigeonIdP"),
   contactEmail |-> Str("admin@example.com"),
   assertionLifetime |-> Num(ServerLifetimeSeconds)]

\* idp?.initialized
IdpInitialized == server.idp # Null /\ sess[server.idp.s].initialized

\* initIdP(): idp = new PigeonIdP(...); await idp.init(); saml = new
\* PigeonIdPSAML(idp, {...}).  No request arrives before the server listens.
InitIdP ==
  /\ server = NotStarted
  /\ sess' = [sess EXCEPT ![ServerIdp] =
                [Constructor(NamespaceOf[ServerIdp])
                   EXCEPT !.mesh = Str("mesh"), !.webDHT = Str("webDHT"),
                          !.initialized = TRUE]]
  /\ server' = [server EXCEPT !.idp = Str(ServerIdp),
                              !.saml = ServerSamlConfig]
  /\ last' = [op |-> "initIdP"]
  /\ UNCHANGED <<store, generated, now, token, issued, rawPuts, vault,
                 published, pending, verified>>

\* start(): app.listen once initIdP has completed.
Listen ==
  /\ server.saml # Null
  /\ ~server.listening
  /\ ~server.exited
  /\ server' = [server EXCEPT !.listening = TRUE]
  /\ last' = [op |-> "listen"]
  /\ UNCHANGED <<sess, store, generated, now, token, issued, rawPuts, vault,
                 published, pending, verified>>

\* SIGTERM / SIGINT: idp.disconnect(), then the process exits.
Shutdown ==
  /\ ~server.exited
  /\ server.idp # Null
  /\ sess' = IF sess[server.idp.s].mesh # Null
             THEN [sess EXCEPT ![server.idp.s].mesh = Null,
                               ![server.idp.s].webDHT = Null,
                               ![server.idp.s].initialized = FALSE]
             ELSE sess
  /\ server' = [server EXCEPT !.listening = FALSE, !.exited = TRUE]
  /\ last' = [op |-> "SIGTERM"]
  /\ UNCHANGED <<store, generated, now, token, issued, rawPuts, vault,
                 published, pending, verified>>

\* GET /health
GetHealth ==
  /\ server.listening
  /\ last' = [op |-> "GET /health",
              res |-> [status |-> 200, initialized |-> IdpInitialized,
                       timestamp |-> now]]
  /\ UNCHANGED <<sess, store, generated, now, token, issued, rawPuts, vault,
                 published, pending, server, verified>>

\* POST /api/dht/put with body {key, value}
DhtPutBodies ==
  { [key |-> Undefined, value |-> Str("v")],
    [key |-> Str("user:pubA:m"), value |-> Str("v")],
    [key |-> Str("k1"), value |-> Obj(<< <<"a", Num(1)>> >>)] }
PostDhtPut(body) ==
  /\ server.listening
  /\ rawPuts < MaxRawPuts
  /\ rawPuts' = rawPuts + 1
  /\ IF ~Truthy(body.key) \/ ~Truthy(body.value)
     THEN /\ last' = [op |-> "POST /api/dht/put", body |-> body,
                      res |-> [status |-> 400, error |-> "Missing key or value"]]
          /\ UNCHANGED <<store, published, verified>>
     ELSE IF ~IdpInitialized
     THEN /\ last' = [op |-> "POST /api/dht/put", body |-> body,
                      res |-> [status |-> 503, error |-> "IdP not initialized"]]
          /\ UNCHANGED <<store, published, verified>>
     ELSE /\ store' = DhtPut(store, body.key.s, body.value)
          /\ published' = Unpublish(published, body.key.s)
          /\ last' = [op |-> "POST /api/dht/put", body |-> body,
                      res |-> [status |-> 200, key |-> body.key]]
  /\ UNCHANGED <<sess, generated, now, token, issued, vault, pending, server,
                 verified>>

\* GET /saml/metadata
GetSamlMetadata ==
  /\ server.listening
  /\ last' =
       IF server.saml = Null
       THEN [op |-> "GET /saml/metadata",
             res |-> [status |-> 503, body |-> "SAML not initialized"]]
       ELSE [op |-> "GET /saml/metadata",
             res |-> [status |-> 200,
                      body |-> generateIdPMetadata(
                                 getMetadataOptions(sess[server.idp.s],
                                                    server.saml), now)]]
  /\ UNCHANGED <<sess, store, generated, now, token, issued, rawPuts, vault,
                 published, pending, server, verified>>

\* The mock user, destination, audience and request id of POST /saml/sso.
SsoUser(username) ==
  [id |-> username, username |-> username,
   attributes |->
     Obj(<< <<"email", Str(username.s \o "@example.com")>>,
            <<"name", username>>,
            <<"roles", Arr(<<Str("user")>>)>> >>)]
SsoDestination == Str("https://sp.example.com/acs")
SsoAudience == Str("https://sp.example.com")
SsoInResponseTo == Str("_request_id")

\* The answer of POST /saml/sso once a username is given and the IdP is
\* initialized: saml.generateResponse, then the POST-binding form; any error
\* is answered with 500.
SsoAnswer(session, config, body, t1, t2, ids) ==
  LET user == SsoUser(body.username)
      generated1 ==
        generateSAMLAssertion(
          generateAssertionOptions(session, config, user, SsoDestination,
                                   SsoAudience),
          t1, t2, ids)
      response ==
        generateSAMLResponse(
          generateResponseOptions(config, generated1.assertion,
                                  SsoDestination, SsoInResponseTo),
          t2, ids[3])
  IN IF generated1.outcome = "throw"
     THEN [status |-> 500, body |-> "Error generating SAML response"]
     ELSE [status |-> 200,
           body |-> generateSAMLPostForm(SsoDestination,
                                         Str(encodeSAMLResponse(response)),
                                         body.RelayState)]

\* POST /saml/sso with body {username, password, SAMLRequest, RelayState}
SsoBodies ==
  { [username |-> u, RelayState |-> r] :
      u \in {Undefined, Str("alice"), Str("bob")}, r \in RelayStates }
PostSamlSso(body, d, ids) ==
  /\ server.listening
  /\ now + d <= MaxSeconds * MsPerSecond
  /\ now' = now + d
  /\ last' =
       [op |-> "POST /saml/sso", body |-> body,
        res |-> IF ~Truthy(body.username)
                THEN [status |-> 400, body |-> "Missing username"]
                ELSE IF server.saml = Null \/ ~IdpInitialized
                THEN [status |-> 503, body |-> "IdP not initialized"]
                ELSE SsoAnswer(sess[server.idp.s], server.saml, body,
                               now, now + d, ids)]
  /\ UNCHANGED <<sess, store, generated, token, issued, rawPuts, vault,
                 published, pending, server, verified>>

\* POST /saml/test/assertion with body {user, recipient, audience}
PostSamlTestAssertion(call, d, ids) ==
  /\ server.listening
  /\ now + d <= MaxSeconds * MsPerSecond
  /\ now' = now + d
  /\ last' =
       [op |-> "POST /saml/test/assertion",
        res |-> IF server.saml = Null
                THEN [status |-> 503, error |-> "SAML not initialized"]
                ELSE LET result ==
                           generateSAMLAssertion(
                             generateAssertionOptions(
                               sess[server.idp.s], server.saml, call.user,
                               call.sp.acsUrl, call.sp.entityId),
                             now, now + d, ids)
                     IN IF result.outcome = "throw"
                        THEN [status |-> 500, error |-> result.error]
                        ELSE [status |-> 200, result |-> result]]
  /\ UNCHANGED <<sess, store, generated, token, issued, rawPuts, vault,
                 published, pending, server, verified>>

ServerNext ==
  \/ InitIdP
  \/ Listen
  \/ Shutdown
  \/ Tick
  \/ GetHealth
  \/ \E body \in DhtPutBodies : PostDhtPut(body)
  \/ GetSamlMetadata
  \/ \E body \in SsoBodies, d \in ClockSteps :
       PostSamlSso(body, d, <<"1f", "2e", "3d">>)
  \/ \E call \in SamlCallsMade, d \in ClockSteps :
       PostSamlTestAssertion(call, d, <<"1f", "2e", "3d">>)

ServerSpec == Init /\ [][ServerNext]_vars

\* ------------------------------------- getMetadata while the keypair changes
\* A keys object whose public key is given on two lines.
PemKeys ==
  [priv |-> Str("privC"), pub |-> "pubC\nline2",
   epriv |-> Str("eprivC"), epub |-> "epubC"]

\* The extension is bound to one session, whose keypair is created, loaded,
\* imported and cleared between the getMetadata calls.
MetadataNext ==
  \/ InitSession(Owner)
  \/ CreateIdentity(Owner, "k", Str("pw"), TRUE)
  \/ \E password \in LoadPasswords : LoadIdentity(Owner, "k", password)
  \/ ClearIdentity(Owner, "k")
  \/ \E k \in generated : ImportKeys(Owner, StringKeys(k))
  \/ ImportKeys(Owner, PemKeys)
  \/ \E c \in SamlConfigs : SamlGetMetadata(Owner, c)

MetadataSpec == Init /\ [][MetadataNext]_vars

\* ------------------------------------------- init calls that overlap
\* init suspends at await this.mesh.init(): a second init, or disconnect,
\* can run on the session before the first init continues.
MaxInits == 2

\* new WebDHT(mesh)
WebDHT(mesh) == [t |-> "webDHT", mesh |-> mesh]
MeshOfDHT(webDHT) == IF webDHT = Null THEN Null ELSE webDHT.mesh

\* new PeerPigeonMesh(...): an object that is none of those the session
\* refers to.
NewMesh(session) ==
  LET held == {session.mesh, MeshOfDHT(session.webDHT)}
  IN IF Str("mesh1") \notin held THEN Str("mesh1")
     ELSE IF Str("mesh2") \notin held THEN Str("mesh2")
     ELSE Str("mesh3")

\* The init calls of a session suspended at the await.
InitsWaiting(p) == IF p = Null THEN 0 ELSE p.waiting

\* PigeonIdP.init up to await this.mesh.init()
InitBegin(s) ==
  /\ pending[s] = Null \/ pending[s].t = "init"
  /\ IF sess[s].initialized
     THEN /\ last' = [op |-> "init", s |-> s, outcome |-> "return",
                      created |-> FALSE, resumed |-> FALSE]
          /\ UNCHANGED <<sess, pending>>
     ELSE /\ InitsWaiting(pending[s]) < MaxInits
          /\ sess' = [sess EXCEPT ![s].mesh = NewMesh(sess[s])]
          /\ pending' = [pending EXCEPT ![s] =
                           [t |-> "init",
                            waiting |-> InitsWaiting(pending[s]) + 1]]
          /\ last' = [op |-> "init", s |-> s, outcome |-> "await",
                      created |-> TRUE, resumed |-> FALSE]
  /\ UNCHANGED <<store, generated, now, token, issued, rawPuts, vault,
                 published, server, verified>>

\* PigeonIdP.init from the await on
InitResume(s) ==
  /\ pending[s] # Null
  /\ pending[s].t = "init"
  /\ sess' = [sess EXCEPT ![s].webDHT = WebDHT(sess[s].mesh),
                          ![s].initialized = TRUE]
  /\ pending' = [pending EXCEPT ![s] =
                   IF pending[s].waiting = 1 THEN Null
                   ELSE [t |-> "init", waiting |-> pending[s].waiting - 1]]
  /\ last' = [op |-> "init", s |-> s, outcome |-> "return",
              created |-> FALSE, resumed |-> TRUE]
  /\ UNCHANGED <<store, generated, now, token, issued, rawPuts, vault,
                 published, server, verified>>

OverlapNext ==
  \/ \E s \in Sessions : InitBegin(s)
  \/ \E s \in Sessions : InitResume(s)
  \/ \E s \in Sessions : Disconnect(s)

OverlapSpec == Init /\ [][OverlapNext]_vars

Next ==
  \/ SessionNext \/ Tick \/ TokenNext \/ DirectoryNext \/ IdentityNext
  \/ SamlNext \/ InterleavedNext \/ SuspendedNext \/ ServerNext \/ HubNext
  \/ MetadataNext \/ OverlapNext

Spec == Init /\ [][Next]_vars

\* ------------------------------------------------- TokenService: claims
IsVerify == last.op = "verifyAuthToken"
Complete(tok) == Truthy(tok.claims) /\ Truthy(tok.signature)
ExpOf(tok) == Get(tok.claims.o, "exp").n
Members(o) == {o[i] : i \in 1..Len(o)}
Keys(o) == [i \in 1..Len(o) |-> o[i][1]]
ReservedClaims == {"namespace", "iss", "iat", "exp"}

\* The verified token is the issued one with the value of at least one claim
\* changed: same keys in the same order, signature as issued.
Tampered(tok) ==
  /\ Complete(issued.token)
  /\ Complete(tok)
  /\ tok.signature = issued.token.signature
  /\ Keys(tok.claims.o) = Keys(issued.token.claims.o)
  /\ tok.claims # issued.token.claims

\* The verified token is the issued one with its claims in another order:
\* same key/value pairs, signature as issued.
Reordered(tok) ==
  /\ Complete(issued.token)
  /\ Complete(tok)
  /\ tok.signature = issued.token.signature
  /\ Len(tok.claims.o) = Len(issued.token.claims.o)
  /\ Members(tok.claims.o) = Members(issued.token.claims.o)
  /\ tok.claims # issued.token.claims

\* C2: verifyAuthToken checks structure, then expiry, then the signature: a
\* token lacking claims or signature is answered 'Invalid token format' with
\* neither the clock read nor verifyMessage called, and a complete token whose
\* exp is less than now is answered 'Token expired' with verifyMessage not
\* called.
C2_ChecksInOrder ==
  IsVerify =>
    /\ ~Complete(last.token) =>
         /\ ~last.result.valid
         /\ last.result.error = "Invalid token format"
         /\ last.result.calls = <<>>
    /\ (Complete(last.token) /\ ExpOf(last.token) < Seconds(last.now)) =>
         /\ ~last.result.valid
         /\ last.result.error = "Token expired"
         /\ last.result.calls = <<"Date.now">>

\* C3: for every complete token and every integer exp, exp < now makes
\* verifyAuthToken answer 'Token expired'; no token is reported valid at a
\* time later than its exp.
C3_ExpiredIsRejected ==
  (IsVerify /\ Complete(last.token)) =>
    /\ ExpOf(last.token) < Seconds(last.now) =>
         (~last.result.valid /\ last.result.error = "Token expired")
    /\ last.result.valid => Seconds(last.now) <= ExpOf(last.token)

\* C4: a token generated with expiresIn <= 0 is generated without error and
\* is answered 'Token expired' by every later verifyAuthToken, also one in
\* the same clock second.
C4_NonPositiveTtlIsExpired ==
  /\ (last.op = "generateAuthToken" /\ Truthy(sess[last.s].keys)) =>
       last.outcome = "return"
  /\ (IsVerify /\ Complete(issued.token) /\ last.token = issued.token
        /\ issued.ttl <= 0) =>
       (~last.result.valid /\ last.result.error = "Token expired")

\* C5: an issued token with a claim value changed after issue (signature as
\* issued) is never reported valid, and while its exp has not passed the
\* answer is 'Invalid signature'.
C5_TamperedNeverValid ==
  (IsVerify /\ Tampered(last.token)) =>
    /\ ~last.result.valid
    /\ Seconds(last.now) <= ExpOf(last.token) =>
         last.result.error = "Invalid signature"

C5_Witness ==
  /\ IsVerify
  /\ Tampered(last.token)
  /\ Seconds(last.now) <= ExpOf(last.token)
  /\ ~last.result.valid
  /\ last.result.error = "Invalid signature"

\* C6: the unmodified token of generateAuthToken(claims, ttl), ttl > 0,
\* verified no later than its exp, is reported valid with the issued claims:
\* the caller's claims are kept and namespace is the issuing session's.
C6_RoundTrip ==
  (IsVerify /\ Complete(issued.token) /\ last.token = issued.token
     /\ issued.ttl > 0 /\ Seconds(last.now) <= ExpOf(issued.token)) =>
    /\ last.result.valid
    /\ last.result.claims = issued.token.claims
    /\ Get(last.result.claims.o, "namespace") = Str(sess[issued.s].namespace)
    /\ \A m \in Members(issued.claimsIn) :
         m[1] \notin ReservedClaims => Get(last.result.claims.o, m[1]) = m[2]

C6_Witness ==
  /\ IsVerify
  /\ Complete(issued.token)
  /\ last.token = issued.token
  /\ issued.ttl > 0
  /\ issued.claimsIn # <<>>
  /\ last.s # issued.s
  /\ Seconds(last.now) = ExpOf(issued.token)
  /\ last.result.valid

\* C7: the signed serialization is canonical: a token whose claims hold the
\* same key/value pairs in another order gets the same verification outcome
\* as the token in the issued order.
C7_KeyOrderIrrelevant ==
  (IsVerify /\ Reordered(last.token)) =>
    last.result.valid = VerifyAuthTokenResult(issued.token, last.now).valid

\* --------------------------------------------- DirectoryService: claims
IsLookup == last.op = "lookupIdentity" /\ last.initialized
VerificationFailed == "Identity data signature verification failed"

\* The stored value's signature verifies under pub over the serialization
\* of its other members.
RecordVerifies(data, pub) ==
  verifyMessage(StringifyValue(Obj(Rest(data.o, "signature"))),
                Get(data.o, "signature"), pub)

\* C1: whatever the store holds, lookupIdentity(pk) on an initialized session
\* returns null (always so when the key is absent), throws 'Identity data
\* signature verification failed', or returns the stored members without the
\* signature, and then the stored signature is pk's signature over the
\* serialization of exactly the returned members.
C1_LookupIsAuthentic ==
  IsLookup =>
    /\ last.res.outcome \in {"null", "throw", "return"}
    /\ last.stored = Undefined => last.res.outcome = "null"
    /\ last.res.outcome = "throw" => last.res.error = VerificationFailed
    /\ last.res.outcome = "return" =>
         /\ ~Has(last.res.result, "signature")
         /\ verifyMessage(StringifyValue(Obj(last.res.result)),
                          Get(last.stored.o, "signature"),
                          Str(last.publicKey))

\* A record whose profile was changed after signing is looked up and refused.
C1_Witness ==
  /\ IsLookup
  /\ last.stored # Undefined
  /\ Has(last.stored.o, "profile")
  /\ Get(Get(last.stored.o, "profile").o, "username") = Str("mallory")
  /\ last.res.outcome = "throw"
  /\ last.res.error = VerificationFailed

C9_MissIsNotAnError ==
  [][(last'.op = "lookupIdentity" /\ last'.initialized) =>
       /\ store' = store
       /\ last'.stored = DhtGet(store, UserKey(last'.publicKey,
                                               sess[last'.s].namespace))
       /\ last'.stored = Undefined => last'.res.outcome = "null"
       /\ last'.res.outcome = "throw" =>
            (last'.stored # Undefined
               /\ ~RecordVerifies(last'.stored, Str(last'.publicKey)))]_vars

C9_Witness ==
  /\ IsLookup
  /\ last.stored = Undefined
  /\ last.key \notin DOMAIN store
  /\ last.res.outcome = "null"

\* C11: after registerIdentity(profile) by a session holding k in namespace
\* N, while the key user:<k.pub>:<N> holds that write, lookupIdentity(k.pub)
\* on an initialized session of namespace N returns a record with the
\* published profile and with pub, epub and namespace equal to k.pub, k.epub
\* and N.
C11_RegisterLookupRoundTrip ==
  (IsLookup /\ last.key \in DOMAIN published
     /\ last.publicKey = published[last.key].keys.pub
     /\ sess[last.s].namespace = published[last.key].namespace) =>
    /\ last.res.outcome = "return"
    /\ Get(last.res.result, "profile") = Obj(published[last.key].profile)
    /\ Get(last.res.result, "pub") = Str(published[last.key].keys.pub)
    /\ Get(last.res.result, "epub") = Str(published[last.key].keys.epub)
    /\ Get(last.res.result, "namespace") = Str(published[last.key].namespace)

\* A profile of two members, published by one session, is looked up.
C11_Witness ==
  /\ IsLookup
  /\ last.key \in DOMAIN published
  /\ last.publicKey = published[last.key].keys.pub
  /\ Len(published[last.key].profile) = 2
  /\ last.res.outcome = "return"
  /\ Get(last.res.result, "profile") = Obj(published[last.key].profile)

\* -------------------------------------------------- IdentitySession: claims
\* C10: sessions of different namespaces never derive the same storage key,
\* so createIdentity never overwrites an announcement written under another
\* namespace.
C10_NamespaceIsolation ==
  (last.op = "createIdentity" /\ last.outcome = "return"
     /\ last.before # Undefined) =>
    Get(last.before.o, "namespace") = Str(sess[last.s].namespace)

\* The outcome of the last call, wherever the action recorded it.
Outcome(l) == IF "res" \in DOMAIN l THEN l.res ELSE l
KeyOps ==
  {"sign", "encrypt", "decrypt", "generateAuthToken", "registerIdentity",
   "authenticateWithHub", "exportKeys"}

\* C12: sign, encrypt, decrypt, generateAuthToken, registerIdentity,
\* authenticateWithHub and exportKeys, called on a session holding no
\* keypair, fail with 'No identity loaded. Create or load an identity
\* first', put nothing to the store and leave the session as it was.
C12_NoKeypairNoOperation ==
  [][(last'.op \in KeyOps /\ ~Truthy(sess[last'.s].keys)) =>
       /\ Outcome(last').outcome = "throw"
       /\ Outcome(last').error = NoIdentity
       /\ store' = store
       /\ sess' = sess]_vars

\* authenticateWithHub fails so on an initialized session whose keypair was
\* cleared or never loaded.
C12_Witness ==
  /\ last.op = "authenticateWithHub"
  /\ sess[last.s].initialized
  /\ ~Truthy(sess[last.s].keys)
  /\ last.outcome = "throw"
  /\ last.error = NoIdentity

\* C13: createIdentity on a session that is not initialized fails with an
\* error; no keypair is generated, the session keeps the keypair it had,
\* nothing is saved under the alias and nothing is written to the store.
C13_UninitializedCreateFails ==
  [][(last'.op = "createIdentity" /\ ~sess[last'.s].initialized) =>
       /\ last'.outcome = "throw"
       /\ generated' = generated
       /\ sess' = sess
       /\ vault' = vault
       /\ store' = store]_vars

\* createIdentity with a password fails after disconnect, on a session that
\* still holds a keypair.
C13_Witness ==
  /\ last.op = "createIdentity"
  /\ last.outcome = "throw"
  /\ ~sess[last.s].initialized
  /\ Truthy(last.password)
  /\ Truthy(sess[last.s].keys)

\* C14: after every createIdentity(alias, password) that returns, the store
\* holds at identity:<alias>:<namespace> an announcement whose pub and epub
\* are those of the returned keypair and of the keypair the session holds,
\* and whose alias and namespace are the call's alias and the session's
\* namespace.
C14_CreateAnnounces ==
  (last.op = "createIdentity" /\ last.outcome = "return") =>
    LET ns == sess[last.s].namespace
        data == DhtGet(store, "identity:" \o last.alias \o ":" \o ns)
    IN /\ data # Undefined
       /\ Get(data.o, "pub") = Str(last.result.pub)
       /\ Get(data.o, "epub") = Str(last.result.epub)
       /\ sess[last.s].keys = last.result
       /\ Get(data.o, "alias") = Str(last.alias)
       /\ Get(data.o, "namespace") = Str(ns)

\* createIdentity with a password returns where the key storage is absent.
C14_Witness ==
  /\ last.op = "createIdentity"
  /\ last.outcome = "return"
  /\ Truthy(last.password)
  /\ last.alias \notin DOMAIN vault
  /\ Get(DhtGet(store, last.key).o, "epub") = Str(last.result.epub)

\* C15: loadIdentity(alias, password) on an initialized session fails with
\* "Identity with alias '<alias>' not found" and returns no keypair when no
\* keypair is stored under the alias and password; otherwise it returns the
\* stored keypair and the session holds it.
C15_LoadFindsOrFails ==
  (last.op = "loadIdentity" /\ sess[last.s].initialized) =>
    IF last.alias \in DOMAIN vault /\ vault[last.alias].password = last.password
    THEN /\ last.outcome = "return"
         /\ last.result = vault[last.alias].keys
         /\ sess[last.s].keys = last.result
    ELSE /\ last.outcome = "throw"
         /\ last.error = "Identity with alias '" \o last.alias \o "' not found"
         /\ "result" \notin DOMAIN last

\* A wrong password for an alias that is stored: no keypair is returned.
C15_Witness ==
  /\ last.op = "loadIdentity"
  /\ sess[last.s].initialized
  /\ last.alias \in DOMAIN vault
  /\ vault[last.alias].password # last.password
  /\ last.outcome = "throw"

\* C16: after disconnect the session holds no keypair (getPublicKeys gives
\* null), initialized is false, and mesh and webDHT are null.
C16_DisconnectDiscardsKeys ==
  last.op = "disconnect" =>
    /\ getPublicKeys(sess[last.s]) = Null
    /\ ~sess[last.s].initialized
    /\ sess[last.s].mesh = Null
    /\ sess[last.s].webDHT = Null

\* ------------------------------------------------ FederationService: claims
\* Reading a document as its receiver does: where a text occurs, the text
\* after and before a marker, the value of an attribute (up to the closing
\* quote, entities resolved).
IndexesOf(s, sub) ==
  {i \in 1..(Len(s) - Len(sub) + 1) : SubSeq(s, i, i + Len(sub) - 1) = sub}
Count(s, sub) == Cardinality(IndexesOf(s, sub))
FirstIndex(s, sub) ==
  CHOOSE i \in IndexesOf(s, sub) : \A j \in IndexesOf(s, sub) : i <= j
After(s, marker) ==
  IF IndexesOf(s, marker) = {} THEN ""
  ELSE SubSeq(s, FirstIndex(s, marker) + Len(marker), Len(s))
Before(s, marker) ==
  IF IndexesOf(s, marker) = {} THEN s
  ELSE SubSeq(s, 1, FirstIndex(s, marker) - 1)
RECURSIVE Resolve(_, _, _)
Resolve(s, entity, c) ==
  IF Len(s) < Len(entity) THEN s
  ELSE IF SubSeq(s, 1, Len(entity)) = entity
       THEN c \o Resolve(SubSeq(s, Len(entity) + 1, Len(s)), entity, c)
       ELSE Head(s) \o Resolve(Tail(s), entity, c)
Unescape(s) ==
  Resolve(Resolve(Resolve(Resolve(Resolve(s, "&lt;", "<"), "&gt;", ">"),
                          "&quot;", "\""), "&apos;", "'"), "&amp;", "&")
AttrRaw(doc, name) == Before(After(doc, name \o "=\""), "\"")
AttrValue(doc, name) == Unescape(AttrRaw(doc, name))
AttrValues(doc, name) ==
  {Before(SubSeq(doc, i + Len(name) + 2, Len(doc)), "\"") :
     i \in IndexesOf(doc, name \o "=\"")}

IsAssertion ==
  /\ "fn" \in DOMAIN last
  /\ last.fn = "generateSAMLAssertion"
  /\ last.res.outcome = "return"
LifetimeOf(options) ==
  IF options.lifetimeSeconds = Undefined THEN DefaultLifetimeSeconds
  ELSE options.lifetimeSeconds.n
Instants == {i * (MsPerSecond \div 2) : i \in 0..(2 * MaxSeconds)}

\* C17: in every assertion generateSAMLAssertion produces, IssueInstant,
\* NotBefore and AuthnInstant are one instant, NotOnOrAfter occurs twice
\* with one value, and that value is NotBefore plus lifetimeSeconds to the
\* millisecond, however the clock advances while the assertion is built.
C17_LifetimeExact ==
  IsAssertion =>
    LET doc == last.res.assertion
        notBefore == AttrRaw(doc, "NotBefore")
    IN /\ AttrRaw(doc, "IssueInstant") = notBefore
       /\ AttrRaw(doc, "AuthnInstant") = notBefore
       /\ Count(doc, "NotOnOrAfter=\"") = 2
       /\ \E ms \in Instants :
            /\ toISOString(0, ms) = notBefore
            /\ AttrValues(doc, "NotOnOrAfter") =
                 {toISOString(0, ms + LifetimeOf(last.options) * MsPerSecond)}

\* The characters of a document that are markup: the numbers of < > " and '
\* and the number of & that begin none of the five entities.
Entities == {"&amp;", "&lt;", "&gt;", "&quot;", "&apos;"}
RawAmpersands(doc) ==
  {i \in IndexesOf(doc, "&") :
     \A e \in Entities : SubSeq(doc, i, i + Len(e) - 1) # e}
Markup(doc) ==
  <<Count(doc, "<"), Count(doc, ">"), Count(doc, "\""), Count(doc, "'"),
    Cardinality(RawAmpersands(doc))>>

\* The options of a call with every string of the caller or configuration
\* emptied; the embedded assertion of a response is kept.
BlankValue(v) ==
  IF v.t = "str" THEN Str("")
  ELSE IF v.t = "arr" THEN Arr([i \in 1..Len(v.a) |-> Str("")])
  ELSE v
BlankAttributes(a) ==
  IF a.t = "obj" THEN Obj([i \in 1..Len(a.o) |-> <<"", BlankValue(a.o[i][2])>>])
  ELSE a
Blank(options) ==
  [f \in DOMAIN options |->
     IF f \in {"assertion", "lifetimeSeconds", "signFunction"} THEN options[f]
     ELSE IF f = "attributes" THEN BlankAttributes(options[f])
     ELSE IF f = "relayState" /\ Truthy(options[f]) THEN Str(" ")
     ELSE BlankValue(options[f])]
Document(fn, options, l) ==
  CASE fn = "generateSAMLAssertion" ->
         generateSAMLAssertion(options, l.t1, l.t2, l.ids).assertion
    [] fn = "generateSAMLResponse" -> generateSAMLResponse(options, l.t1, l.id)
    [] fn = "generateIdPMetadata" -> generateIdPMetadata(options, l.t1)
    [] fn = "generateSAMLPostForm" ->
         generateSAMLPostForm(options.acsUrl, options.samlResponse,
                              options.relayState)
IsDocument ==
  /\ "fn" \in DOMAIN last
  /\ last.fn # ""
  /\ last.res.outcome = "return"
DocumentOf(l) ==
  IF l.fn = "generateSAMLAssertion" THEN l.res.assertion ELSE l.res.xml

\* C18: in every document of generateSAMLAssertion, generateSAMLResponse,
\* generateIdPMetadata and generateSAMLPostForm no string of the caller or
\* the configuration introduces a markup character: the document has the
\* markup characters of the same document with those strings emptied.
C18_EveryFieldEscaped ==
  IsDocument =>
    Markup(DocumentOf(last))
      = Markup(Document(last.fn, Blank(last.options), last))

\* C19: for every request identifier R given to generateResponse(user,
\* destination, audience, R), the decoded Response has InResponseTo equal to
\* R, Destination equal to destination, the success status code and one
\* embedded assertion.
C19_ResponseEchoesRequest ==
  (last.op = "generateResponse" /\ last.res.outcome = "return"
     /\ last.inResponseTo # Undefined) =>
    LET xml == decodeSAMLRequest(last.res.result)
    IN /\ AttrValue(xml, "InResponseTo") = last.inResponseTo.s
       /\ AttrValue(xml, "Destination") = last.destination.s
       /\ AttrValue(xml, "<samlp:StatusCode Value")
            = "urn:oasis:names:tc:SAML:2.0:status:Success"
       /\ Count(xml, "<saml:Assertion ") = 1
       /\ Count(xml, "</saml:Assertion>") = 1

\* C20: generateAssertion returns the assertion with the bound session's
\* signature over exactly the returned assertion, which verifies under the
\* session's signing public key; bound to a session without a keypair it
\* fails and returns no assertion.
C20_AssertionIsSigned ==
  last.op = "generateAssertion" =>
    IF Truthy(sess[last.s].keys)
    THEN /\ last.res.outcome = "return"
         /\ "signature" \in DOMAIN last.res
         /\ verifyMessage(last.res.assertion, Str(last.res.signature),
                          Str(sess[last.s].keys.pub))
    ELSE /\ last.res.outcome = "throw"
         /\ "assertion" \notin DOMAIN last.res

\* An assertion with an attribute statement is returned signed.
C20_Witness ==
  /\ last.op = "generateAssertion"
  /\ last.res.outcome = "return"
  /\ Count(last.res.assertion, "<saml:AttributeValue ") = 3
  /\ verifyMessage(last.res.assertion, Str(last.res.signature),
                   Str(sess[last.s].keys.pub))

\* C21: every value generateResponse returns carries the bound session's
\* signature over the assertion it wraps: the signature is a member of the
\* returned value or occurs in the decoded Response.
C21_ResponseIsSigned ==
  (last.op = "generateResponse" /\ last.res.outcome = "return") =>
    LET xml == decodeSAMLRequest(last.res.result)
        assertion == last.options.assertion.s
        signature == signMessage(assertion, sess[last.s].keys.priv)
    IN /\ Count(xml, assertion) = 1
       /\ \/ "signature" \in DOMAIN last.res
          \/ Count(xml, signature) > 0
          \/ Count(xml, "Signature") > 0

\* C22: a step made by a call on one session leaves the keypair, namespace,
\* initialized flag, mesh and webDHT of every other session as they were,
\* and a step that writes one store key leaves the value of every other
\* store key as it was.
C22_SessionsIndependent ==
  [][/\ \A b \in Sessions :
          last'.s # b => sess'[b] = sess[b]
     /\ \A k \in DOMAIN store :
          (k \in DOMAIN store' /\ store'[k] = store[k])
            \/ ("key" \in DOMAIN last' /\ last'.key = k)]_vars

\* One session registers its identity while the other session holds a
\* keypair and has its own record in the store.
C22_Witness ==
  /\ last.op = "registerIdentity"
  /\ last.outcome = "return"
  /\ \E b \in Sessions \ {last.s} :
       /\ Truthy(sess[b].keys)
       /\ UserKey(sess[b].keys.pub, sess[b].namespace) \in DOMAIN store

\* C23: for the signature sign(m) returned on a session holding keypair k,
\* verify(m2, signature, k.pub) on any session, with or without a keypair
\* of its own, is true exactly when m2 = m.
C23_SignVerify ==
  (last.op = "verify" /\ last.publicKey = Str(sess[last.signer].keys.pub)) =>
    (last.result = (last.message = last.signed))

\* A session that holds no keypair verifies a signature of another session.
C23_Witness ==
  /\ last.op = "verify"
  /\ last.s # last.signer
  /\ ~Truthy(sess[last.s].keys)
  /\ last.publicKey = Str(sess[last.signer].keys.pub)
  /\ last.message = last.signed
  /\ last.result

\* The text of the one element of a document that opens with the tag.
ElementText(doc, tag) == Before(After(doc, "<" \o tag \o ">"), "</")

\* C24: every assertion generated for audience A and recipient R has one
\* AudienceRestriction with one Audience, whose text is A XML-escaped, and
\* one Recipient, which is R; whatever the subject and the attributes hold,
\* the assertion names no second audience.
C24_OneAudience ==
  IsAssertion =>
    LET doc == last.res.assertion
    IN /\ Count(doc, "<saml:AudienceRestriction>") = 1
       /\ Count(doc, "<saml:Audience>") = 1
       /\ Count(doc, "</saml:Audience>") = 1
       /\ ElementText(doc, "saml:Audience") = escapeXml(last.audience)
       /\ Unescape(ElementText(doc, "saml:Audience")) = last.audience.s
       /\ Count(doc, "Recipient=\"") = 1
       /\ AttrValue(doc, "Recipient") = last.recipient.s

\* An assertion for an audience with markup characters, for a user one of
\* whose attribute values is the text of an Audience element.
C24_Witness ==
  /\ IsAssertion
  /\ last.audience = Str("sp<2>")
  /\ Count(last.res.assertion, "&lt;saml:Audience&gt;") = 1
  /\ ElementText(last.res.assertion, "saml:Audience") = "sp&lt;2&gt;"

\* C25: a loadIdentity call that fails leaves the session's keypair as it
\* was before the call, so getPublicKeys and sign answer as before.
C25_FailedLoadKeepsKeys ==
  [][(last'.op = "loadIdentity" /\ last'.outcome = "throw") =>
       /\ Truthy(sess[last'.s].keys) =>
            sess'[last'.s].keys = sess[last'.s].keys
       /\ getPublicKeys(sess'[last'.s]) = getPublicKeys(sess[last'.s])
       /\ \A m \in Messages :
            SignResult(sess'[last'.s].keys, m) = SignResult(sess[last'.s].keys, m)
    ]_vars

\* C26: every record lookupIdentity(publicKey) returns on a session with
\* namespace N has its namespace member equal to N and its pub member equal
\* to publicKey, whatever any party has copied to the looked-up key.
C26_LookupStaysInNamespace ==
  (IsLookup /\ last.res.outcome = "return") =>
    /\ Get(last.res.result, "namespace") = Str(sess[last.s].namespace)
    /\ Get(last.res.result, "pub") = Str(last.publicKey)

\* C27: for every caller claims object, the token generateAuthToken returns
\* has claims.namespace equal to the session namespace, claims.iss equal to
\* the session's signing public key, claims.iat equal to the second of the
\* call and claims.exp equal to claims.iat + expiresIn.
C27_ReservedClaimsWin ==
  (last.op = "generateAuthToken" /\ last.outcome = "return") =>
    LET claims == last.result.claims.o
    IN /\ issued.token = last.result
       /\ Get(claims, "namespace") = Str(sess[last.s].namespace)
       /\ Get(claims, "iss") = Str(sess[last.s].keys.pub)
       /\ Get(claims, "iat") = Num(issued.iat)
       /\ Get(claims, "exp") = Num(issued.iat + issued.ttl)

\* C28: every record registerIdentity writes at key user:<K>:<namespace>
\* has its pub member equal to K and a signature that verifies under K, also
\* when the session's keypair is replaced while the call is suspended
\* between signing the record and writing it.
C28_RecordMatchesItsKey ==
  (last.op = "registerIdentity" /\ last.outcome = "return") =>
    \A K \in Pubs :
      last.key = UserKey(K, sess[last.s].namespace) =>
        /\ Get(last.record, "pub") = Str(K)
        /\ RecordVerifies(store[last.key], Str(K))

\* C29: once the server listens, every POST /saml/sso that carries a
\* username is answered with the POST-binding form holding a SAMLResponse,
\* never with the 500 'Error generating SAML response'.
C29_SsoAnswersWithForm ==
  (last.op = "POST /saml/sso" /\ Truthy(last.body.username)) =>
    /\ last.res.status = 200
    /\ Count(last.res.body, "name=\"SAMLResponse\"") = 1

\* C30: authenticateWithHub returns success: true with a token only when
\* the hub has verified the authentication request the call stored under
\* auth:<hubNamespace>:<signingPublic>:<timestamp>.
C30_TokenOnlyAfterHub ==
  (last.op = "authenticateWithHub" /\ last.outcome = "return"
     /\ last.success) =>
    last.requestKey \in verified

\* C31: in every Response generateResponse(user, destination, audience, R)
\* builds, the InResponseTo of the embedded assertion's
\* SubjectConfirmationData and the InResponseTo of the Response are both R.
C31_InResponseToAgree ==
  (last.op = "generateResponse" /\ last.res.outcome = "return"
     /\ last.inResponseTo # Undefined) =>
    LET xml == decodeSAMLRequest(last.res.result)
    IN /\ Count(xml, "InResponseTo=\"") = 2
       /\ {Unescape(v) : v \in AttrValues(xml, "InResponseTo")}
            = {last.inResponseTo.s}

\* C32: for every hubNamespace h and credentials c, the token
\* authenticateWithHub(h, c) returns has claims.hub = h, and the request it
\* stored has namespace h, publicKey the session's signing public key and a
\* signature by that key over the request's other members.
C32_HubRequestAndToken ==
  (last.op = "authenticateWithHub" /\ last.outcome = "return") =>
    LET request == store[last.requestKey]
        pub == Str(sess[last.s].keys.pub)
    IN /\ Get(last.token.claims.o, "hub") = Str(last.hubNamespace)
       /\ Get(request.o, "namespace") = Str(last.hubNamespace)
       /\ Get(request.o, "publicKey") = pub
       /\ Get(request.o, "credentials") = Obj(last.credentials)
       /\ RecordVerifies(request, pub)

\* C33: a verifyAuthToken call, whatever its outcome, leaves the token's
\* claims and signature, every session's keypair and flags and the store as
\* they were, and the claims it returns on success are the token's claims.
C33_VerifyDoesNotMutate ==
  [][last'.op = "verifyAuthToken" =>
       /\ token' = token
       /\ last'.token = token
       /\ sess' = sess
       /\ store' = store
       /\ last'.result.valid => last'.result.claims = token.claims
    ]_vars

\* A token that verifyAuthToken found expired is still the issued token.
C33_Witness ==
  /\ IsVerify
  /\ last.result.valid = FALSE
  /\ last.result.error = "Token expired"
  /\ Complete(token)
  /\ token = last.token
  /\ token = issued.token

\* C34: two verifyAuthToken calls on the same token at the same clock value
\* return the same result on whatever sessions they are made, and two verify
\* calls with the same message, signature and public key return the same
\* value on whatever sessions they are made.
C34_VerificationNeverAssumesSelf ==
  [][/\ (last.op = "verifyAuthToken" /\ last'.op = "verifyAuthToken"
           /\ last'.token = last.token /\ last'.now = last.now) =>
          last'.result = last.result
     /\ (last.op = "verify" /\ last'.op = "verify"
           /\ last'.message = last.message
           /\ last'.signature = last.signature
           /\ last'.publicKey = last.publicKey) =>
          last'.result = last.result
    ]_vars

\* A session that was never initialized and holds no keypair finds the
\* token of another session valid.
C34_Witness ==
  /\ IsVerify
  /\ last.result.valid
  /\ ~Truthy(sess[last.s].keys)
  /\ ~sess[last.s].initialized
  /\ last.s # issued.s
  /\ sess[last.s].namespace # sess[issued.s].namespace

\* The store keys that hold a directory record of public key K in namespace N.
RecordsOf(K, N) ==
  {k \in DOMAIN store :
     /\ Has(store[k].o, "profile")
     /\ Get(store[k].o, "pub") = Str(K)
     /\ Get(store[k].o, "namespace") = Str(N)}

\* C35: while only registerIdentity calls have written user records, the
\* store holds for each session's (signing public key, namespace) at most
\* one record, at user:<pub>:<namespace>; once the session has registered
\* it is the record of its most recent call, and lookupIdentity returns
\* that call's profile.
C35_OneLiveRecord ==
  rawPuts = 0 =>
    /\ \A s \in Sessions :
         LET K == sess[s].keys.pub
             N == sess[s].namespace
             key == UserKey(K, N)
         IN /\ RecordsOf(K, N) \subseteq {key}
            /\ key \in DOMAIN published =>
                 /\ RecordsOf(K, N) = {key}
                 /\ Get(store[key].o, "profile") = Obj(published[key].profile)
                 /\ Get(LookupIdentityResult(store[key], K).result, "profile")
                      = Obj(published[key].profile)
    /\ (last.op = "registerIdentity" /\ last.outcome = "return") =>
         /\ store[last.key] = Obj(last.record)
         /\ Obj(published[last.key].profile) = Get(last.record, "profile")

\* A session registers a second time, with another profile.
C35_Witness ==
  /\ rawPuts = 0
  /\ last.op = "registerIdentity"
  /\ last.outcome = "return"
  /\ last.before # Undefined
  /\ Get(last.before.o, "profile") # Get(last.record, "profile")
  /\ RecordsOf(sess[last.s].keys.pub, sess[last.s].namespace) = {last.key}

\* C36: once clearIdentity has discarded a session's keypair, the next
\* operation, whichever it is, does not make that session hold a keypair
\* again.
C36_DiscardedStaysDiscarded ==
  [][(last.op = "clearIdentity" /\ last.discarded) =>
       ~Truthy(sess'[last.s].keys)]_vars

\* The lines of a string, joined.
RECURSIVE Unbroken(_)
Unbroken(s) ==
  IF IndexesOf(s, "\n") = {} THEN s
  ELSE Before(s, "\n") \o Unbroken(After(s, "\n"))

\* C37: each getMetadata call returns a document whose signing certificate
\* is the signing public key the bound session holds at the time of the
\* call, its lines joined, whatever createIdentity, loadIdentity, importKeys
\* and clearIdentity did before; with no keypair held the call returns too,
\* and the certificate is empty.
C37_MetadataFollowsKeys ==
  last.op = "getMetadata" =>
    /\ last.res.outcome = "return"
    /\ Count(last.res.xml, "<ds:X509Certificate>") = 1
    /\ ElementText(last.res.xml, "ds:X509Certificate") =
         (IF Truthy(sess[last.s].keys) THEN Unbroken(sess[last.s].keys.pub)
          ELSE "")

\* getMetadata after the session created an identity and then imported a
\* key given on two lines.
C37_Witness ==
  /\ last.op = "getMetadata"
  /\ generated # {}
  /\ Truthy(sess[last.s].keys)
  /\ IndexesOf(sess[last.s].keys.pub, "\n") # {}
  /\ ElementText(last.res.xml, "ds:X509Certificate") = "pubCline2"

\* The lifetime the configuration of an extension asks for, in seconds.
ConfiguredLifetime(config) ==
  IF config.assertionLifetime = Undefined THEN DefaultLifetimeSeconds
  ELSE config.assertionLifetime.n

\* C38: an assertion of generateAssertion, built while the clock stands
\* still, has NotOnOrAfter = issue time + L seconds for the assertionLifetime
\* L of the configuration, L = 0 included, and issue time + 300 seconds when
\* the configuration has no assertionLifetime.
C38_ConfiguredLifetime ==
  (last.op = "generateAssertion" /\ last.res.outcome = "return"
     /\ last.t1 = last.t2) =>
    AttrValues(last.res.assertion, "NotOnOrAfter") =
      {toISOString(0, last.t1
                        + ConfiguredLifetime(last.config) * MsPerSecond)}

\* C39: with init calls that overlap, a mesh is constructed only while
\* the session refers to none, that is at most once between two
\* disconnects, and every init call that returns leaves initialized = true
\* with mesh set and webDHT built on that mesh.
C39_InitIdempotentUnderOverlap ==
  [][last'.op = "init" =>
       /\ last'.created => sess[last'.s].mesh = Null
       /\ last'.outcome = "return" =>
            /\ sess'[last'.s].initialized
            /\ sess'[last'.s].mesh # Null
            /\ sess'[last'.s].webDHT = WebDHT(sess'[last'.s].mesh)]_vars

====
